---- MODULE Spec2Model ----
(***************************************************************************)
(* Model of the translation-experiment harness: the spelling-error         *)
(* injector (src/src/error_injector.py) and the embedding distance engine  *)
(* (src/src/embeddings_calculator.py, src/src/embedding_calculator.py).    *)
(*                                                                         *)
(* Strings are sequences of one-character strings.  The module-level       *)
(* random generator of Python's `random` is the variable rng: the raw      *)
(* draws it will produce next, as far as the state fixes them.  Floats are *)
(* IEEE binary64 numbers, computed exactly and rounded to nearest even.    *)
(***************************************************************************)
EXTENDS Integers, Sequences, FiniteSets, TLC

VARIABLES
    rng,      \* state of the process-wide generator of the random module
    pc,       \* "idle" | "called": position of the caller of inject_errors
    call,     \* the last inject_errors call: arguments, generator state, outcome
    runs,     \* SpecRepro: each call's generator state, sentence, rate and outcome
    dist,     \* the last comparison of the distance engine: vectors and outcome
    job,      \* the frame of error_injector.main: arguments, loop position, outcome
    files,    \* the output directory of main: file name -> what was written
    cachedir, \* the embedding cache directory: cache file name -> stored vector
    runner,   \* the caching calculators: instances, encode calls, run position, results
    analysis, \* EmbeddingsCalculator.analyze_translations: provider calls, position, results
    stats,    \* the last computation of the statistics modules: input and outcome
    load,     \* calculate_results.main: the --input argument, the file, what was processed
    procs,    \* concurrent callers: each one's position, arguments and outcome
    disk      \* the cache directory seen by concurrent processes: file name -> bytes on disk

vars == <<rng, pc, call, runs, dist, job, files, cachedir, runner, analysis, stats,
          load, procs, disk>>

(***************************************************************************)
(* Bounds of the model.                                                    *)
(***************************************************************************)
MaxTokens == 2      \* most tokens in an input sentence
MaxComp == 3        \* largest magnitude of an embedding component

(***************************************************************************)
(* Characters.                                                             *)
(***************************************************************************)
\* word[-1] in ".,!?;:"
Punctuation == {".", ",", "!", "?", ";", ":"}

LowerOf == [c \in {"A", "B"} |-> IF c = "A" THEN "a" ELSE "b"]

\* str.isalpha for one character
isalpha(c) == c \in {"a", "b", "z", "A", "B"}

\* the letters chr(random.randint(ord('a'), ord('z'))) ranges over
RandomLetters == <<"a", "b", "z">>

\* str.lower
lower(word) == [i \in 1..Len(word) |-> IF word[i] \in DOMAIN LowerOf THEN LowerOf[word[i]] ELSE word[i]]

(***************************************************************************)
(* str.split() and ' '.join(): split on runs of whitespace, dropping empty *)
(* pieces; join with single spaces.                                        *)
(***************************************************************************)
RECURSIVE SplitFrom(_, _, _)
SplitFrom(s, i, cur) ==
    IF i > Len(s) THEN (IF cur = <<>> THEN <<>> ELSE <<cur>>)
    ELSE IF s[i] = " "
         THEN (IF cur = <<>> THEN <<>> ELSE <<cur>>) \o SplitFrom(s, i + 1, <<>>)
         ELSE SplitFrom(s, i + 1, Append(cur, s[i]))

split(s) == SplitFrom(s, 1, <<>>)

RECURSIVE join(_)
join(words) ==
    IF words = <<>> THEN <<>>
    ELSE IF Len(words) = 1 THEN words[1]
    ELSE words[1] \o <<" ">> \o join(Tail(words))

(***************************************************************************)
(* Naturals of any size.  A natural is the sequence of its digits in base  *)
(* 2^14, the least significant first, without a leading zero digit; the    *)
(* products of two digits stay within the integers of the checker.  The    *)
(* digits of a result are each given by a formula of their own, so that    *)
(* no operation recurses over the digits.                                  *)
(***************************************************************************)
Limb == 2 ^ 14

Min(a, b) == IF a < b THEN a ELSE b

Max(a, b) == IF a > b THEN a ELSE b

\* digit i of a, zero past its end
At(a, i) == IF i >= 1 /\ i <= Len(a) THEN a[i] ELSE 0

\* a function on 1..n as a sequence
Tuple(f) == f \o <<>>

\* the number of digits of a up to its last nonzero digit
Top(a) == Cardinality({ i \in 1..Len(a) : \E j \in i..Len(a) : a[j] # 0 })

\* a without its leading zero digits
Trim(a) == SubSeq(a, 1, Top(a))

\* the natural n, for n below 2^31
Big(n) == Trim(<<n % Limb, (n \div Limb) % Limb, n \div (Limb * Limb)>>)

\* the integer of a, for a below 2^31
ToInt(a) == At(a, 1) + Limb * (At(a, 2) + Limb * (At(a, 3) + Limb * At(a, 4)))

\* -1, 0 or 1 as a is below, equal to or above b
Cmp(a, b) ==
    IF Len(a) # Len(b) THEN (IF Len(a) < Len(b) THEN 0 - 1 ELSE 1)
    ELSE IF \E i \in 1..Len(a) : a[i] < b[i] /\ \A j \in (i + 1)..Len(a) : a[j] = b[j]
    THEN 0 - 1
    ELSE IF \A i \in 1..Len(a) : a[i] = b[i] THEN 0
    ELSE 1

\* a carry enters digit i of a + b: a digit below overflows, and every digit
\* between is full
Carry(a, b, i) ==
    \E j \in 1..(i - 1) :
        /\ At(a, j) + At(b, j) >= Limb
        /\ \A k \in (j + 1)..(i - 1) : At(a, k) + At(b, k) = Limb - 1

Add(a, b) ==
    IF a = <<>> THEN b
    ELSE IF b = <<>> THEN a
    ELSE Trim(Tuple([i \in 1..(Max(Len(a), Len(b)) + 1) |->
                   (At(a, i) + At(b, i) + (IF Carry(a, b, i) THEN 1 ELSE 0)) % Limb]))

\* a borrow is taken from digit i of a - b: a digit below falls short, and
\* every digit between is equal
Borrow(a, b, i) ==
    \E j \in 1..(i - 1) :
        /\ At(a, j) < At(b, j)
        /\ \A k \in (j + 1)..(i - 1) : At(a, k) = At(b, k)

\* a - b, for a >= b
Sub(a, b) ==
    IF b = <<>> THEN a
    ELSE Trim(Tuple([i \in 1..Len(a) |->
                   (a[i] - At(b, i) - (IF Borrow(a, b, i) THEN 1 ELSE 0) + Limb) % Limb]))

\* a * 2^(14 n)
ShiftLimbs(a, n) == IF a = <<>> THEN <<>> ELSE [i \in 1..n |-> 0] \o a

\* the products of the digits of a and b that weigh 2^(14 (k - 1)), b of
\* five digits or fewer
Term(a, b, k, i) == At(a, k - i + 1) * At(b, i)

Column(a, b, k) ==
    Term(a, b, k, 1) + Term(a, b, k, 2) + Term(a, b, k, 3) + Term(a, b, k, 4) + Term(a, b, k, 5)

\* the columns as a sequence, and the three digits of each column as naturals
Columns(a, b) == Tuple([k \in 1..(Len(a) + Len(b)) |-> Column(a, b, k)])

ColumnDigits(c, unit) == Trim([k \in 1..Len(c) |-> (c[k] \div unit) % Limb] \o <<>>)

ColumnSum(c) ==
    IF c = <<>> THEN <<>>
    ELSE Add(Add(ColumnDigits(c, 1), ShiftLimbs(ColumnDigits(c, Limb), 1)),
             ShiftLimbs(ColumnDigits(c, Limb * Limb), 2))

\* a * b, one of them of five digits or fewer
Mul(a, b) ==
    IF a = <<>> \/ b = <<>> THEN <<>>
    ELSE IF Len(b) <= Len(a) THEN ColumnSum(Columns(a, b))
    ELSE ColumnSum(Columns(b, a))

\* a * k, for one digit k
MulSmall(a, k) == IF k = 0 THEN <<>> ELSE ColumnSum(Columns(a, <<k>>))

\* a * p, for p a power of two below 2^14
ShlSmall(a, p) ==
    Trim(Tuple([i \in 1..(Len(a) + 1) |-> ((At(a, i) * p) % Limb) + ((At(a, i - 1) * p) \div Limb)]))

\* a * 2^k
Shl(a, k) == ShiftLimbs(ShlSmall(a, 2 ^ (k % 14)), k \div 14)

\* a div p, for p a power of two below 2^14
ShrSmall(a, p) ==
    Trim(Tuple([i \in 1..Len(a) |-> (a[i] \div p) + ((At(a, i + 1) % p) * (Limb \div p))]))

\* a div 2^k
Shr(a, k) ==
    IF k \div 14 >= Len(a) THEN <<>>
    ELSE ShrSmall(SubSeq(a, k \div 14 + 1, Len(a)), 2 ^ (k % 14))

\* a mod 2^k
Low(a, k) ==
    IF Len(a) <= k \div 14 THEN a
    ELSE Trim(SubSeq(a, 1, k \div 14) \o <<a[k \div 14 + 1] % 2 ^ (k % 14)>>)

\* the number of binary digits of one digit
BitLen(n) == Cardinality({ k \in 0..13 : 2 ^ k <= n })

\* the number of binary digits of a
Bits(a) == IF a = <<>> THEN 0 ELSE 14 * (Len(a) - 1) + BitLen(a[Len(a)])

IsOdd(a) == a # <<>> /\ a[1] % 2 = 1

\* the largest digit q with q * d <= r, from an estimate not below it
Fits(r, d, q) == Cmp(MulSmall(d, q), r) <= 0

Correct(r, d, est) ==
    IF est = 0 \/ Fits(r, d, est) THEN est
    ELSE IF Fits(r, d, est - 1) THEN est - 1
    ELSE est - 2

\* r div d for r < d * 2^14 and d with a leading digit of 2^13 or more
Digit(r, d) ==
    IF Cmp(r, d) < 0 THEN 0
    ELSE Correct(r, d, Min(Limb - 1, (At(r, Len(d) + 1) * Limb + r[Len(d)]) \div d[Len(d)]))

\* the remainder with the next digit of the dividend brought down
Bring(x, rem) == IF rem = <<>> /\ x = 0 THEN <<>> ELSE <<x>> \o rem

\* long division, the digits of n taken from the most significant down: rem
\* is the remainder so far, r the remainder with the digit n[i + 1] brought
\* down, digit the digit of the quotient it gives
RECURSIVE QuotFrom(_, _, _, _, _)
QuotNext(n, d, i, r, q, digit) ==
    IF digit = 0 THEN QuotFrom(n, d, i, r, <<0>> \o q)
    ELSE QuotFrom(n, d, i, Sub(r, MulSmall(d, digit)), <<digit>> \o q)

QuotFrom(n, d, i, rem, q) ==
    IF i = 0 THEN [quot |-> Trim(q), rem |-> rem]
    ELSE QuotNext(n, d, i - 1, Bring(n[i], rem), q, Digit(Bring(n[i], rem), d))

\* the division started below the digits of n that d exceeds by its length
QuotOf(n, d) ==
    IF Len(n) < Len(d) THEN [quot |-> <<>>, rem |-> n]
    ELSE QuotFrom(n, d, Len(n) - Len(d) + 1, SubSeq(n, Len(n) - Len(d) + 2, Len(n)), <<>>)

QuotBy(n, d, s) == QuotOf(Shl(n, s), Shl(d, s))

\* n div d, and whether the division leaves a remainder (rem # <<>>), for d > 0
Quot(n, d) == QuotBy(n, d, 14 - BitLen(d[Len(d)]))

\* the integer part of the square root of t, for t below 2^14
RootSmall(t) == Cardinality({ k \in 1..127 : k * k <= t })

\* the integer part of the square root of t, for t below 2^28, from the
\* root of its leading digit
RootOfTwo(t, r) == 128 * r + Cardinality({ k \in 1..127 : (128 * r + k) * (128 * r + k) <= t })

RootInt(t) == RootOfTwo(t, RootSmall(t \div Limb))

\* the largest s <= y with s * s <= n
RECURSIVE Lower(_, _)
Lower(n, y) ==
    IF y = <<>> THEN y
    ELSE IF Cmp(Mul(y, y), n) <= 0 THEN y
    ELSE Lower(n, Sub(y, <<1>>))

\* one step of Newton's iteration from x > 0: a value not below the root
Newton(n, x) == IF x = <<>> THEN x ELSE Shr(Add(x, Quot(n, x).quot), 1)

\* a guess of the root of a, for a of 55 or 56 bits: the root s of its two
\* leading digits t, and the quotient by 2 s of what they leave with the next
\* digit brought down; above the root by two at most
GuessFrom(a, t, s) == s * Limb + ((t - s * s) * Limb + a[2]) \div (2 * s) + 1

GuessOf(a) == GuessFrom(a, a[3] + Limb * a[4], RootInt(a[3] + Limb * a[4]))

\* the root of n from the guess g of the root of n div 2^(2 j)
FromGuess(n, j, g) == IF g <= 0 THEN <<>> ELSE Lower(n, Newton(n, Shl(Big(g), j)))

ISqrtFrom(n, j) == FromGuess(n, j, GuessOf(Shr(n, 2 * j)))

\* the integer part of the square root of n, for n of 57 bits or more
ISqrt(n) == IF n = <<>> THEN <<>> ELSE ISqrtFrom(n, (Bits(n) - 55) \div 2)

(***************************************************************************)
(* IEEE doubles.  A finite double is its sign, its significand and the     *)
(* exponent of the significand's last bit: (-1)^neg * man * 2^exp, the     *)
(* significand of 53 bits, or of fewer bits at the least exponent (a       *)
(* subnormal).  Every operation returns the double nearest to the exact    *)
(* result, ties to the even significand; a result below half the least     *)
(* subnormal is zero (underflow), a result that rounds to 2^1024 or more   *)
(* is an infinity (overflow).  Zero is held without a sign.  The doubles   *)
(* without a significand are zero (exp 0), the infinities (exp 1) and NaN  *)
(* (exp 2).                                                                *)
(***************************************************************************)
DZero == [neg |-> FALSE, man |-> <<>>, exp |-> 0]

DInf(neg) == [neg |-> neg, man |-> <<>>, exp |-> 1]

DNaN == [neg |-> FALSE, man |-> <<>>, exp |-> 2]

IsInf(x) == x.man = <<>> /\ x.exp = 1

IsNaN(x) == x.man = <<>> /\ x.exp = 2

\* the exponent of the last bit of a subnormal double: 2^-1074 is the least
\* positive double
LeastExp == 0 - 1074

\* the double of significand r, which rounding up may have brought to 2^53
Pack(neg, r, x) ==
    IF r = <<>> THEN DZero
    ELSE IF Bits(r) + x > 1024 THEN DInf(neg)
    ELSE IF Bits(r) > 53 THEN [neg |-> neg, man |-> Shr(r, 1), exp |-> x + 1]
    ELSE [neg |-> neg, man |-> r, exp |-> x]

\* q or q + 1, as the part cut off is below (c < 0), at (c = 0) or above
\* (c > 0) half a unit of q
RoundUp(q, c, sticky) ==
    IF c > 0 \/ (c = 0 /\ (sticky \/ IsOdd(q))) THEN Add(q, <<1>>) ELSE q

\* m without its k lowest bits, rounded to nearest
Cut(neg, m, e, sticky, k) ==
    IF k <= 0 THEN Pack(neg, Shl(m, 0 - k), e + k)
    ELSE Pack(neg, RoundUp(Shr(m, k), Cmp(Low(m, k), Shl(<<1>>, k - 1)), sticky), e + k)

\* the double nearest to (-1)^neg * (m + f) * 2^e, where 0 < f < 1 if
\* sticky and f = 0 if not; with sticky, m has 54 bits or more
RoundDouble(neg, m, e, sticky) ==
    IF m = <<>> THEN DZero ELSE Cut(neg, m, e, sticky, Max(Bits(m) - 53, LeastExp - e))

\* float(n) for an integer n
DInt(n) == RoundDouble(n < 0, Big(IF n < 0 THEN 0 - n ELSE n), 0, FALSE)

\* exact product and exact sum of two numbers (-1)^neg * man * 2^exp
XMul(a, b) == [neg |-> a.neg # b.neg, man |-> Mul(a.man, b.man), exp |-> a.exp + b.exp]

\* the sum of (-1)^na * ma * 2^e and (-1)^nb * mb * 2^e
XSum(na, ma, nb, mb, e) ==
    IF na = nb THEN [neg |-> na, man |-> Add(ma, mb), exp |-> e]
    ELSE IF Cmp(ma, mb) > 0 THEN [neg |-> na, man |-> Sub(ma, mb), exp |-> e]
    ELSE IF ma = mb THEN DZero
    ELSE [neg |-> nb, man |-> Sub(mb, ma), exp |-> e]

XAlign(a, b, e) == XSum(a.neg, Shl(a.man, a.exp - e), b.neg, Shl(b.man, b.exp - e), e)

XAdd(a, b) ==
    IF a.man = <<>> THEN b
    ELSE IF b.man = <<>> THEN a
    ELSE XAlign(a, b, Min(a.exp, b.exp))

Rounded(x) == RoundDouble(x.neg, x.man, x.exp, FALSE)

dneg(a) == IF a.man = <<>> /\ a.exp # 1 THEN a ELSE [a EXCEPT !.neg = ~a.neg]

\* s + x for s a zero, an infinity or NaN: the infinities of opposite signs
\* have no sum
AddTo(s, x) ==
    IF s.exp = 0 THEN x
    ELSE IF s.exp = 2 \/ IsNaN(x) \/ (IsInf(x) /\ x.neg # s.neg) THEN DNaN
    ELSE s

dadd(a, b) ==
    IF a.man = <<>> THEN AddTo(a, b)
    ELSE IF b.man = <<>> THEN AddTo(b, a)
    ELSE Rounded(XAlign(a, b, Min(a.exp, b.exp)))

dsub(a, b) == dadd(a, dneg(b))

\* a * b for a or b a zero, an infinity or NaN: zero times an infinity is
\* no number
MulOf(a, b) ==
    IF IsNaN(a) \/ IsNaN(b) THEN DNaN
    ELSE IF IsInf(a) \/ IsInf(b)
    THEN IF a = DZero \/ b = DZero THEN DNaN ELSE DInf(a.neg # b.neg)
    ELSE DZero

dmul(a, b) == IF a.man = <<>> \/ b.man = <<>> THEN MulOf(a, b) ELSE Rounded(XMul(a, b))

\* a * b + c rounded once (fused multiply-add)
dfma(a, b, c) ==
    IF a.man = <<>> \/ b.man = <<>> THEN dadd(MulOf(a, b), c)
    ELSE IF c.man = <<>> THEN (IF c.exp = 0 THEN Rounded(XMul(a, b)) ELSE c)
    ELSE Rounded(XAlign(XMul(a, b), c, Min(a.exp + b.exp, c.exp)))

QuotRounded(neg, qr, e) == RoundDouble(neg, qr.quot, e, qr.rem # <<>>)

\* a / b from the quotient of a.man * 2^s by b.man
DivBy(a, b, s) == QuotRounded(a.neg # b.neg, Quot(Shl(a.man, s), b.man), a.exp - b.exp - s)

\* a / b for a or b a zero, an infinity or NaN, as numpy divides: 0 / 0 and
\* the quotient of two infinities are no number, x / 0 is an infinity
DivOf(a, b) ==
    IF IsNaN(a) \/ IsNaN(b) \/ (IsInf(a) /\ IsInf(b)) \/ (a = DZero /\ b = DZero) THEN DNaN
    ELSE IF IsInf(a) \/ b = DZero THEN DInf(a.neg # b.neg)
    ELSE DZero

\* a / b: the quotient of the significands to 56 bits or more
ddiv(a, b) ==
    IF b.man = <<>> \/ a.man = <<>> THEN DivOf(a, b)
    ELSE DivBy(a, b, 56 + Bits(b.man) - Bits(a.man))

RootRounded(n, s, x) == RoundDouble(FALSE, s, x, Mul(s, s) # n)

RootOf(n, x) == RootRounded(n, ISqrt(n), x)

\* the root of a from the root of a.man * 2^s, for a.exp - s even
SqrtBy(a, s) == RootOf(Shl(a.man, s), (a.exp - s) \div 2)

SqrtEven(a, s) == SqrtBy(a, IF (a.exp - s) % 2 = 0 THEN s ELSE s + 1)

\* np.sqrt(a), for a >= 0: the root of the significand to 55 bits or more;
\* the root of zero, of the infinity and of NaN is the argument
dsqrt(a) == IF a.man = <<>> THEN a ELSE SqrtEven(a, 110 - Bits(a.man))

\* the sign of a finite double or an infinity
SignOf(d) == IF d = DZero THEN 0 ELSE IF d.neg THEN 0 - 1 ELSE 1

\* s against x for s a zero, an infinity or NaN; 2 when one of them is NaN
CmpTo(s, x) ==
    IF s.exp = 2 \/ IsNaN(x) THEN 2
    ELSE IF s.exp = 1 THEN (IF IsInf(x) /\ x.neg = s.neg THEN 0 ELSE SignOf(s))
    ELSE 0 - SignOf(x)

Opposite(c) == IF c = 2 THEN 2 ELSE 0 - c

\* -1, 0 or 1 as a < b, a = b or a > b, and 2 when a or b is NaN
dcmp(a, b) ==
    IF a.man = <<>> THEN CmpTo(a, b)
    ELSE IF b.man = <<>> THEN Opposite(CmpTo(b, a))
    ELSE SignOf(XAlign(a, dneg(b), Min(a.exp, b.exp)))

\* a < b, a <= b and a > b; false when a or b is NaN
dlt(a, b) == dcmp(a, b) < 0

dle(a, b) == dcmp(a, b) <= 0

dgt(a, b) == dcmp(a, b) = 1

dabs(a) == [a EXCEPT !.neg = FALSE]

\* the spacing of the doubles from 1 to 2: 2^-52
Ulp1 == [neg |-> FALSE, man |-> <<0, 0, 0, 1024>>, exp |-> 0 - 104]

\* the float literal n/d of a decimal numeral, d a power of ten
Dec(n, d) == ddiv(DInt(n), DInt(d))

Signed(neg, n) == IF neg THEN 0 - n ELSE n

\* int(x): the integer part, toward zero
int(x) ==
    Signed(x.neg, ToInt(IF x.exp >= 0 THEN Shl(x.man, x.exp) ELSE Shr(x.man, 0 - x.exp)))

\* m * 2^-k to the nearest integer, ties to even
NearestOf(m, k) ==
    IF k <= 0 THEN Shl(m, 0 - k)
    ELSE RoundUp(Shr(m, k), Cmp(Low(m, k), Shl(<<1>>, k - 1)), FALSE)

\* the multiple of 10^-ndigits nearest to |x|, ties to even, as its count
\* of 10^-ndigits
Nearest(x, ndigits) == NearestOf(Mul(x.man, Big(10 ^ ndigits)), 0 - x.exp)

\* round(x, ndigits) of Python, as a count of 10^-ndigits
round_digits(x, ndigits) == Signed(x.neg, ToInt(Nearest(x, ndigits)))

(***************************************************************************)
(* The random module.  A generator state is the sequence of raw draws the  *)
(* generator produces next, as far as the state fixes them: random.seed(a) *)
(* installs the stream of seed a, every draw takes the head.  A draw past  *)
(* the end of the sequence is not fixed by the state: the generator is     *)
(* then left as <<-n>>, n the range asked for, and Streams supplies the    *)
(* draw.                                                                   *)
(***************************************************************************)
RawDraws == 0..3

\* the generator of which no draw is fixed yet
NoGenerator == <<>>

\* a draw was asked of r past its end
Short(r) == r # <<>> /\ Head(r) < 0

\* random._randbelow(n): a value in 0..n-1 and the advanced generator
randbelow(r, n) ==
    IF r = <<>> THEN [val |-> 0, rng |-> <<0 - n>>]
    ELSE IF Head(r) < 0 THEN [val |-> 0, rng |-> r]
    ELSE [val |-> Head(r) % n, rng |-> Tail(r)]

\* random.randint(a, b)
randint(r, a, b) == LET d == randbelow(r, b - a + 1) IN [val |-> a + d.val, rng |-> d.rng]

\* random.sample(range(n), k), the pool algorithm of CPython for small n
RECURSIVE SamplePool(_, _, _, _, _)
SamplePool(r, pool, n, k, i) ==
    IF i >= k THEN [val |-> <<>>, rng |-> r]
    ELSE LET d == randbelow(r, n - i)
             j == d.val + 1
             rest == SamplePool(d.rng, [pool EXCEPT ![j] = pool[n - i]], n, k, i + 1)
         IN [val |-> <<pool[j]>> \o rest.val, rng |-> rest.rng]

sample(r, n, k) == SamplePool(r, [i \in 1..n |-> i], n, k, 0)

(***************************************************************************)
(* The four typo strategies and introduce_typo.  Indices are 1-based here, *)
(* 0-based in the source.                                                  *)
(***************************************************************************)
swap_adjacent(word, r) ==
    IF Len(word) < 2 THEN [val |-> word, rng |-> r]
    ELSE LET d == randint(r, 0, Len(word) - 2)
             idx == d.val + 1
         IN [val |-> [word EXCEPT ![idx] = word[idx + 1], ![idx + 1] = word[idx]],
             rng |-> d.rng]

replace_char(word, r) ==
    IF Len(word) = 0 THEN [val |-> word, rng |-> r]
    ELSE LET d == randint(r, 0, Len(word) - 1)
             idx == d.val + 1
             l == randint(d.rng, 1, Len(RandomLetters))
         IN [val |-> [word EXCEPT ![idx] = RandomLetters[l.val]], rng |-> l.rng]

\* delete_char keeping only word[:idx]
delete_char_truncating(word, r) ==
    IF Len(word) <= 1 THEN [val |-> word, rng |-> r]
    ELSE LET d == randint(r, 0, Len(word) - 1)
             idx == d.val + 1
         IN [val |-> SubSeq(word, 1, idx - 1), rng |-> d.rng]

delete_char(word, r) ==
    IF Len(word) <= 1 THEN [val |-> word, rng |-> r]
    ELSE LET d == randint(r, 0, Len(word) - 1)
             idx == d.val + 1
         IN [val |-> SubSeq(word, 1, idx - 1) \o SubSeq(word, idx + 1, Len(word)),
             rng |-> d.rng]

duplicate_char(word, r) ==
    IF Len(word) = 0 THEN [val |-> word, rng |-> r]
    ELSE LET d == randint(r, 0, Len(word) - 1)
             idx == d.val + 1
         IN [val |-> SubSeq(word, 1, idx) \o <<word[idx]>> \o SubSeq(word, idx + 1, Len(word)),
             rng |-> d.rng]

introduce_typo(word, r) ==
    IF Len(word) < 2 THEN [val |-> word, rng |-> r]
    ELSE LET s == randbelow(r, 4)
         IN CASE s.val = 0 -> swap_adjacent(word, s.rng)
              [] s.val = 1 -> replace_char(word, s.rng)
              [] s.val = 2 -> delete_char(word, s.rng)
              [] OTHER     -> duplicate_char(word, s.rng)

(***************************************************************************)
(* inject_errors.                                                          *)
(***************************************************************************)
\* the trailing run of punctuation of a token: how many characters it has
RECURSIVE TrailingPunctLen(_)
TrailingPunctLen(word) ==
    IF word # <<>> /\ word[Len(word)] \in Punctuation
    THEN 1 + TrailingPunctLen(SubSeq(word, 1, Len(word) - 1))
    ELSE 0

\* the body of the loop `for idx in error_indices`, for one index
CorruptWord(token, r) ==
    LET p == TrailingPunctLen(token)
        word == SubSeq(token, 1, Len(token) - p)
        trailing_punct == SubSeq(token, Len(token) - p + 1, Len(token))
    IN IF \E i \in 1..Len(word) : isalpha(word[i])
       THEN LET t == introduce_typo(lower(word), r)
            IN [val |-> t.val \o trailing_punct, rng |-> t.rng]
       ELSE [val |-> token, rng |-> r]

\* the loop running over every word, selected or not
RECURSIVE CorruptLoop_every_word(_, _, _, _)
CorruptLoop_every_word(words, error_indices, i, r) ==
    IF i > Len(words) THEN [val |-> words, rng |-> r]
    ELSE LET c == CorruptWord(words[i], r)
         IN CorruptLoop_every_word([words EXCEPT ![i] = c.val], error_indices, i + 1, c.rng)

RECURSIVE CorruptLoop(_, _, _, _)
CorruptLoop(words, error_indices, i, r) ==
    IF i > Len(error_indices) THEN [val |-> words, rng |-> r]
    ELSE LET idx == error_indices[i]
             c == CorruptWord(words[idx], r)
         IN CorruptLoop([words EXCEPT ![idx] = c.val], error_indices, i + 1, c.rng)

\* num_errors with round() in place of int()
num_errors_rounded(n, error_rate) ==
    LET num == n * error_rate
        q == num \div 100
        twice == 2 * (num - q * 100)
        nearest == IF twice < 100 THEN q
                   ELSE IF twice > 100 THEN q + 1
                   ELSE IF q % 2 = 0 THEN q ELSE q + 1
    IN IF nearest > 1 THEN nearest ELSE 1

\* num_errors = max(1, int(len(words) * error_rate / 100))
num_errors(n, error_rate) ==
    LET t == int(ddiv(DInt(n * error_rate), DInt(100))) IN IF t > 1 THEN t ELSE 1


\* round(num / den) as Python rounds: to nearest, ties to the even integer
PyRound(num, den) ==
    LET q == num \div den
        twice == 2 * (num - q * den)
    IN IF twice < den THEN q
       ELSE IF twice > den THEN q + 1
       ELSE IF q % 2 = 0 THEN q ELSE q + 1


\* the outcome of a call: raised (ValueError), the returned sentence, the
\* generator after the call, and the indices random.sample selected
\* inject_errors without the early return for a rate of 0
inject_errors_no_shortcut(sentence, error_rate, r) ==
    IF error_rate < 0 \/ error_rate > 100
    THEN [raised |-> TRUE, val |-> <<>>, rng |-> r, error_indices |-> <<>>]
    ELSE LET words == split(sentence)
             s == sample(r, Len(words), Min(num_errors(Len(words), error_rate), Len(words)))
             out == CorruptLoop(words, s.val, 1, s.rng)
         IN [raised |-> FALSE, val |-> join(out.val), rng |-> out.rng,
             error_indices |-> s.val]

inject_errors(sentence, error_rate, r) ==
    IF error_rate < 0 \/ error_rate > 100
    THEN [raised |-> TRUE, val |-> <<>>, rng |-> r, error_indices |-> <<>>]
    ELSE IF error_rate = 0
    THEN [raised |-> FALSE, val |-> sentence, rng |-> r, error_indices |-> <<>>]
    ELSE LET words == split(sentence)
             s == sample(r, Len(words), Min(num_errors(Len(words), error_rate), Len(words)))
             out == CorruptLoop(words, s.val, 1, s.rng)
         IN [raised |-> FALSE, val |-> join(out.val), rng |-> out.rng,
             error_indices |-> s.val]

\* the generator states r may stand for when inject_errors(sentence,
\* error_rate) is called on it: r followed by every draw the call makes past
\* the end of r, each over the whole range the call asks for
RECURSIVE Streams(_, _, _)
Streams(sentence, error_rate, r) ==
    LET res == inject_errors(sentence, error_rate, r)
    IN IF ~Short(res.rng) THEN {r}
       ELSE UNION { Streams(sentence, error_rate, Append(r, d)) :
                      d \in 0..((0 - Head(res.rng)) - 1) }

\* the stream of the seed (a, b), as far as len draws: a family of seeds
\* whose first draws differ
SeedStream(a, b, len) ==
    [i \in 1..len |-> IF i = 1 THEN a ELSE IF i = 2 THEN b ELSE (a + b * i + (i \div 3)) % 4]

\* the draws of the longest call of inject_errors on a sentence of S:
\* random.sample draws once per word, each word at most three times
CallDraws(S) ==
    LET most == CHOOSE n \in { Len(split(s)) : s \in S } :
                    \A m \in { Len(split(s)) : s \in S } : m <= n
    IN 4 * most

(***************************************************************************)
(* Inputs.                                                                 *)
(***************************************************************************)
\* tokens: plain, capitalised with trailing punctuation, interior
\* punctuation, punctuation only, one letter
Vocabulary ==
    { <<"a", "b">>, <<"A", "b", ",">>, <<"a", ".", "b">>, <<".", "!">>, <<"a">> }

TokenLists == UNION { [1..n -> Vocabulary] : n \in 0..MaxTokens }

\* single spaces, or a leading space, doubled separators and a trailing space
RECURSIVE Padded(_)
Padded(words) == IF words = <<>> THEN <<" ">> ELSE <<" ">> \o words[1] \o <<" ">> \o Padded(Tail(words))

Sentences == { join(w) : w \in TokenLists } \cup { Padded(w) : w \in TokenLists }

ErrorRates == {0, 75, 100}

NoCall == [sentence |-> <<>>, error_rate |-> 0, rng0 |-> <<>>, raised |-> FALSE,
           val |-> <<>>, error_indices |-> <<>>]

NoJob == [pc |-> "none", sentences |-> <<>>, error_rates |-> <<>>, format |-> "both",
          s |-> 0, e |-> 0, raised |-> FALSE, seed |-> <<>>, done |-> <<>>]

NoFiles == <<>>

NoCache == <<>>

NoRunner == [pc |-> "none", blas |-> "plain", model_name |-> [i \in {} |-> ""], experiments |-> <<>>,
             i |-> 0, results |-> <<>>, encoded |-> <<>>, last |-> <<>>]

NoAnalysis == [pc |-> "none", blas |-> "plain", data |-> <<>>, k |-> 0, results |-> <<>>, calls |-> <<>>,
               saved |-> <<>>, last |-> <<>>]

\* fit is what linregress answered in test_linearity_hypothesis, before any
\* rounding
NoStats == [op |-> "none", df |-> <<>>, out |-> <<>>, raised |-> FALSE, fit |-> <<>>]

NoLoad == [pc |-> "none", input |-> <<>>, file |-> <<>>, clear_cache |-> FALSE,
           loaded |-> <<>>, defaults |-> FALSE, raised |-> "", saved |-> <<>>]

NoProcs == <<>>

NoDisk == <<>>

NoDist == [engine |-> "none", blas |-> "plain", vec1 |-> <<>>, vec2 |-> <<>>, raised |-> FALSE,
           similarity |-> <<>>, distance |-> <<>>, reported |-> <<>>]

(***************************************************************************)
(* SpecInject: a caller seeds the generator and calls inject_errors.       *)
(***************************************************************************)
InitInject ==
    /\ rng = NoGenerator
    /\ pc = "idle"
    /\ call = NoCall
    /\ runs = <<>>
    /\ dist = NoDist
    /\ job = NoJob
    /\ files = NoFiles
    /\ cachedir = NoCache
    /\ runner = NoRunner
    /\ analysis = NoAnalysis
    /\ stats = NoStats
    /\ load = NoLoad
    /\ procs = NoProcs
    /\ disk = NoDisk

\* random.seed(a), for a seed whose stream is in T
SeedFrom(T) ==
    /\ pc = "idle"
    /\ \E t \in T : rng' = t
    /\ UNCHANGED <<pc, call, runs, dist, job, files, cachedir, runner, analysis, stats, load, procs, disk>>

\* inject_errors drawing from a generator of its own, which random.seed does
\* not reach: the call starts from the process-wide generator's state and
\* leaves it as it was, and its draws are those of the own generator, seeded
\* by the system with any seed
InjectFrom_own_generator(S, R) ==
    /\ pc = "idle"
    /\ \E sentence \in S, error_rate \in R :
          \E own \in { SeedStream(a, b, CallDraws(S)) : a, b \in RawDraws } :
             \E res \in {inject_errors(sentence, error_rate, own)} :
                /\ call' = [sentence |-> sentence, error_rate |-> error_rate, rng0 |-> rng,
                            raised |-> res.raised, val |-> res.val,
                            error_indices |-> res.error_indices]
                /\ rng' = rng
    /\ pc' = "called"
    /\ UNCHANGED <<runs, dist, job, files, cachedir, runner, analysis, stats, load, procs, disk>>

\* inject_errors(sentence, error_rate) on the process-wide generator
InjectFrom(S, R) ==
    /\ pc = "idle"
    /\ \E sentence \in S, error_rate \in R :
          \E rng0 \in Streams(sentence, error_rate, rng) :
             \E res \in {inject_errors(sentence, error_rate, rng0)} :
                /\ call' = [sentence |-> sentence, error_rate |-> error_rate, rng0 |-> rng0,
                            raised |-> res.raised, val |-> res.val,
                            error_indices |-> res.error_indices]
                /\ rng' = res.rng
    /\ pc' = "called"
    /\ UNCHANGED <<runs, dist, job, files, cachedir, runner, analysis, stats, load, procs, disk>>

\* random.seed(a) for any seed: no draw of its stream is fixed until it is made
Seed == SeedFrom({NoGenerator})

InjectCall == InjectFrom(Sentences, ErrorRates)

\* the caller takes the result (or catches the ValueError) and goes on
Return ==
    /\ pc = "called"
    /\ pc' = "idle"
    /\ call' = NoCall
    /\ UNCHANGED <<rng, runs, dist, job, files, cachedir, runner, analysis, stats, load, procs, disk>>

NextInject == Seed \/ InjectCall \/ Return

SpecInject == InitInject /\ [][NextInject]_vars

(***************************************************************************)
(* SpecRepro: the reproducibility tests.  Two calls of inject_errors in    *)
(* one process, each after random.seed or right after the call before it;  *)
(* runs keeps what each call started from and what it returned.            *)
(***************************************************************************)
MaxRuns == 2

ReproSentences == { <<"a", ".", "b">>, <<"a", "b", " ", "A", "b", ",">> }

\* sixteen seeds, their streams as long as MaxRuns calls can draw
ReproSeeds ==
    { SeedStream(a, b, MaxRuns * CallDraws(ReproSentences)) : a, b \in RawDraws }

ReproRates == {75, 100}

InitRepro ==
    /\ rng \in ReproSeeds
    /\ pc = "idle"
    /\ call = NoCall
    /\ runs = <<>>
    /\ dist = NoDist
    /\ job = NoJob
    /\ files = NoFiles
    /\ cachedir = NoCache
    /\ runner = NoRunner
    /\ analysis = NoAnalysis
    /\ stats = NoStats
    /\ load = NoLoad
    /\ procs = NoProcs
    /\ disk = NoDisk

ReproSeed == Len(runs) < MaxRuns /\ SeedFrom(ReproSeeds)

ReproCall == Len(runs) < MaxRuns /\ InjectFrom(ReproSentences, ReproRates)

ReproReturn ==
    /\ pc = "called"
    /\ pc' = "idle"
    /\ runs' = Append(runs, [rng0 |-> call.rng0, sentence |-> call.sentence,
                             error_rate |-> call.error_rate, val |-> call.val,
                             rng1 |-> rng])
    /\ call' = NoCall
    /\ UNCHANGED <<rng, dist, job, files, cachedir, runner, analysis, stats, load, procs, disk>>

NextRepro == ReproSeed \/ ReproCall \/ ReproReturn

SpecRepro == InitRepro /\ [][NextRepro]_vars

(***************************************************************************)
(* SpecMain: error_injector.main.  One run: the arguments are parsed, the  *)
(* generator is seeded, the sentences are loaded, and every sentence is    *)
(* injected at every rate, each result saved under the rate's file name.   *)
(***************************************************************************)
MaxSentences == 2
MaxRates == 2

MainSentences == { <<"a", "b", " ", "A", "b", ",">>, <<"a", ".", "b">> }

MainInputs == UNION { [1..n -> MainSentences] : n \in 0..MaxSentences }

MainRates == {-10, 0, 100, 150}

MainRateLists == UNION { [1..n -> MainRates] : n \in 1..MaxRates }

Formats == {"txt", "json", "both"}

\* sum(1 for o, e in zip(original_tokens, error_tokens) if o != e)
errors(original_tokens, error_tokens) ==
    Cardinality({ i \in 1..Min(Len(original_tokens), Len(error_tokens)) :
                    original_tokens[i] # error_tokens[i] })

\* save_results: the file "<error_rate>_percent.txt", opened with 'w'
save_results(dir, error_rate, original_sentence, error_sentence) ==
    LET name == [error_rate |-> error_rate, ext |-> "txt"]
        text == [error_rate |-> error_rate, original |-> original_sentence,
                 with_errors |-> error_sentence]
    IN [n \in DOMAIN dir \cup {name} |-> IF n = name THEN text ELSE dir[n]]

\* round((error_count / word_count * 100), 1) if word_count > 0 else 0, in
\* tenths of a percent
actual_error_rate(error_count, word_count) ==
    IF word_count > 0
    THEN round_digits(dmul(ddiv(DInt(error_count), DInt(word_count)), DInt(100)), 1)
    ELSE 0

\* save_json_results: the file "<error_rate>_percent.json", opened with 'w'
save_json_results(dir, error_rate, original_sentence, error_sentence, word_count, error_count) ==
    LET name == [error_rate |-> error_rate, ext |-> "json"]
        data == [error_rate_percent |-> error_rate,
                 original_sentence |-> original_sentence,
                 sentence_with_errors |-> error_sentence,
                 total_words |-> word_count,
                 words_with_errors |-> error_count,
                 actual_error_rate |-> actual_error_rate(error_count, word_count)]
    IN [n \in DOMAIN dir \cup {name} |-> IF n = name THEN data ELSE dir[n]]

\* sixteen seeds, their streams as long as every call of one run can draw
MainSeeds ==
    { SeedStream(a, b, MaxSentences * MaxRates * CallDraws(MainSentences)) : a, b \in RawDraws }

InitMain ==
    /\ rng = NoGenerator
    /\ pc = "idle"
    /\ call = NoCall
    /\ runs = <<>>
    /\ dist = NoDist
    /\ job = NoJob
    /\ files = NoFiles
    /\ cachedir = NoCache
    /\ runner = NoRunner
    /\ analysis = NoAnalysis
    /\ stats = NoStats
    /\ load = NoLoad
    /\ procs = NoProcs
    /\ disk = NoDisk

\* main up to the loop: parse_args, random.seed(args.seed), load_sentences
MainStart ==
    /\ job.pc = "none"
    /\ \E seed \in MainSeeds, sentences \in MainInputs,
          error_rates \in MainRateLists, format \in Formats :
          /\ rng' = seed
          /\ job' = [pc |-> IF sentences = <<>> THEN "returned" ELSE "loop",
                     sentences |-> sentences, error_rates |-> error_rates,
                     format |-> format, s |-> 1, e |-> 1, raised |-> FALSE,
                     seed |-> seed, done |-> <<>>]
    /\ UNCHANGED <<pc, call, runs, dist, files, cachedir, runner, analysis, stats, load, procs, disk>>

\* one pass of the inner loop: inject_errors, count, save; the ValueError
\* of inject_errors is not caught and ends main
MainIteration ==
    /\ job.pc = "loop"
    /\ \E res \in {inject_errors(job.sentences[job.s], job.error_rates[job.e], rng)} :
        LET sentence == job.sentences[job.s]
            error_rate == job.error_rates[job.e]
            original_tokens == split(sentence)
            error_tokens == split(res.val)
            count == errors(original_tokens, error_tokens)
            txt == IF job.format \in {"txt", "both"}
                   THEN save_results(files, error_rate, sentence, res.val)
                   ELSE files
            both == IF job.format \in {"json", "both"}
                    THEN save_json_results(txt, error_rate, sentence, res.val,
                                           Len(original_tokens), count)
                    ELSE txt
            last_rate == job.e = Len(job.error_rates)
            last_sentence == job.s = Len(job.sentences)
        IN /\ rng' = res.rng
           /\ call' = [sentence |-> sentence, error_rate |-> error_rate, rng0 |-> rng,
                       raised |-> res.raised, val |-> res.val,
                       error_indices |-> res.error_indices]
           /\ IF res.raised
              THEN /\ job' = [job EXCEPT !.pc = "aborted", !.raised = TRUE]
                   /\ files' = files
              ELSE /\ files' = both
                   /\ job' = [job EXCEPT
                                !.pc = IF last_rate /\ last_sentence THEN "completed" ELSE "loop",
                                !.done = Append(@, [sentence |-> sentence,
                                                    error_rate |-> error_rate,
                                                    val |-> res.val]),
                                !.e = IF last_rate THEN 1 ELSE job.e + 1,
                                !.s = IF last_rate THEN job.s + 1 ELSE job.s]
    /\ UNCHANGED <<pc, runs, dist, cachedir, runner, analysis, stats, load, procs, disk>>

NextMain == MainStart \/ MainIteration

SpecMain == InitMain /\ [][NextMain]_vars

(***************************************************************************)
(* Properties of inject_errors.                                            *)
(***************************************************************************)
\* a call of inject_errors has been made and its outcome is in call
Called == pc = "called"

Returned == Called /\ ~call.raised

Tokens(s) == split(s)

\* C1: the sentence inject_errors returns has as many whitespace-delimited
\* tokens as the sentence it was given.
C1_TokenCountPreserved ==
    Returned => Len(Tokens(call.val)) = Len(Tokens(call.sentence))

\* a two-token sentence came back with a character deleted or duplicated
C1_Witness ==
    /\ Returned
    /\ call.error_rate = 100
    /\ Len(Tokens(call.sentence)) = 2
    /\ Len(Tokens(call.val)) = 2
    /\ Len(call.val) # Len(call.sentence)

PunctuationOf(s) == SelectSeq(s, LAMBDA c : c \in Punctuation)

\* C2: the punctuation characters of the returned sentence are those of the
\* input, in the same order, wherever in a token they sit.
C2_PunctuationPreserved ==
    Returned => PunctuationOf(call.val) = PunctuationOf(call.sentence)

\* C3: with an error rate of 0 inject_errors returns its input sentence
\* character for character, whitespace included.
C3_ZeroRateIdentity ==
    Called /\ call.error_rate = 0 => ~call.raised /\ call.val = call.sentence

\* a sentence with leading and doubled spaces came back from a rate of 0
C3_Witness ==
    /\ Called
    /\ call.error_rate = 0
    /\ Len(Tokens(call.sentence)) = 2
    /\ call.sentence # join(Tokens(call.sentence))
    /\ call.val = call.sentence

\* C4 in main: a rate below 0 or above 100 makes inject_errors raise
\* before any output, and the failure ends that call only: the run goes on
\* with the rates and sentences that remain.
C4_FailureAbortsOnlyCall ==
    /\ call.error_rate < 0 \/ call.error_rate > 100 => call.raised /\ call.val = <<>>
    /\ call.raised => job.pc \in {"loop", "completed"}

Selected == { call.error_indices[i] : i \in 1..Len(call.error_indices) }

\* C6: for a rate above 0 the number of tokens selected for corruption is
\* min(n, max(1, round(n * r / 100))), n being the number of tokens.
C6_SelectedCountRounded ==
    Returned /\ call.error_rate > 0
        => LET n == Len(Tokens(call.sentence))
           IN Cardinality(Selected) = Min(n, Max(1, PyRound(n * call.error_rate, 100)))

\* C6 as the code has it: the count is min(n, max(1, floor(n * r / 100))),
\* the product truncated and not rounded; the selected positions are
\* distinct positions of the sentence.
C6_SelectedCountTruncated ==
    Returned /\ call.error_rate > 0
        => LET n == Len(Tokens(call.sentence))
           IN /\ Cardinality(Selected) = Min(n, Max(1, (n * call.error_rate) \div 100))
              /\ Len(call.error_indices) = Cardinality(Selected)
              /\ Selected \subseteq 1..n

\* two tokens at 75 percent: 1.5 is truncated to one selected token
C6_Witness ==
    /\ Returned
    /\ call.error_rate = 75
    /\ Len(Tokens(call.sentence)) = 2
    /\ Cardinality(Selected) = 1

(***************************************************************************)
(* Embeddings: vectors of doubles.                                         *)
(***************************************************************************)
\* 1.0 and 2.0: 2^52 * 2^-52 and 2^52 * 2^-51
DOne == [neg |-> FALSE, man |-> <<0, 0, 0, 1024>>, exp |-> 0 - 52]

DTwo == [neg |-> FALSE, man |-> <<0, 0, 0, 1024>>, exp |-> 0 - 51]

\* 2.5e-06, the double of the literal: 5902958103587057 * 2^-71
Tiny == [neg |-> FALSE, man |-> <<10481, 9101, 2904, 1342>>, exp |-> 0 - 71]

\* 2^-600, a double whose square is below the least double
Minute == [neg |-> FALSE, man |-> <<0, 0, 0, 1024>>, exp |-> 0 - 652]

\* 2^600, a double whose square is above the largest double
Huge == [neg |-> FALSE, man |-> <<0, 0, 0, 1024>>, exp |-> 548]

\* the components: zero, one, and the largest magnitude with either sign
Components == { DInt(c) : c \in {0 - MaxComp, 0, 1, MaxComp} }

\* the provider's dimension is fixed per configuration; two are modelled
Dimensions == {1, 2}

\* vectors of integers, one with a component that is not an integer, one
\* whose squared norm underflows and one whose squared norm overflows
Vectors ==
    UNION { [1..n -> Components] : n \in Dimensions }
        \cup { <<Tiny, DOne>>, <<Minute, DZero>>, <<Huge, DZero>> }

\* how the BLAS of the build sums the products of a dot product: every
\* product rounded and then added, or multiplied and added in one rounding
Builds == {"plain", "fused"}

\* np.dot on two vectors of one length
RECURSIVE DotFrom(_, _, _, _, _)
DotFrom(a, b, i, acc, blas) ==
    IF i > Len(a) \/ i > Len(b) THEN acc
    ELSE IF blas = "fused" THEN DotFrom(a, b, i + 1, dfma(a[i], b[i], acc), blas)
    ELSE DotFrom(a, b, i + 1, dadd(acc, dmul(a[i], b[i])), blas)

dot(a, b, blas) == DotFrom(a, b, 1, DZero, blas)

\* np.linalg.norm
norm(a, blas) == dsqrt(dot(a, a, blas))

(***************************************************************************)
(* EmbeddingsCalculator: cosine_similarity, cosine_distance and the        *)
(* metrics of measure_distance.                                            *)
(***************************************************************************)
\* the similarity from the two norms, the divisor given
SimilarityBy(vec1, vec2, blas, vec1_norm, vec2_norm, divisor) ==
    IF vec1_norm = DZero \/ vec2_norm = DZero THEN [raised |-> FALSE, val |-> DZero]
    ELSE IF Len(vec1) # Len(vec2) THEN [raised |-> TRUE, val |-> DZero]
    ELSE [raised |-> FALSE, val |-> ddiv(dot(vec1, vec2, blas), divisor)]

SquareOf(vec1, vec2, blas, vec1_norm, vec2_norm) ==
    SimilarityBy(vec1, vec2, blas, vec1_norm, vec2_norm, dmul(vec1_norm, vec1_norm))

\* cosine_similarity dividing by the first vector's norm twice
cosine_similarity_first_norm_twice(vec1, vec2, blas) ==
    SquareOf(vec1, vec2, blas, norm(vec1, blas), norm(vec2, blas))

SimilarityOf(vec1, vec2, blas, vec1_norm, vec2_norm) ==
    SimilarityBy(vec1, vec2, blas, vec1_norm, vec2_norm, dmul(vec1_norm, vec2_norm))

\* raised: np.dot refuses operands of different lengths (ValueError)
cosine_similarity(vec1, vec2, blas) ==
    SimilarityOf(vec1, vec2, blas, norm(vec1, blas), norm(vec2, blas))

\* 1 - similarity
DistanceOf(similarity) ==
    IF similarity.raised THEN [raised |-> TRUE, val |-> DZero]
    ELSE [raised |-> FALSE, val |-> dsub(DOne, similarity.val)]

cosine_distance(vec1, vec2, blas) == DistanceOf(cosine_similarity(vec1, vec2, blas))

\* round(x, ndigits) in a report, as <<count of 10^-ndigits>>; of a NaN or
\* an infinity round returns the argument, which is no count: <<>>
round_number(x, ndigits) ==
    IF x.man = <<>> /\ x.exp # 0 THEN <<>> ELSE <<round_digits(x, ndigits)>>

\* the metrics of measure_distance from its two results
MetricsFrom(original_embedding, final_embedding, blas, similarity, distance) ==
    [engine |-> "measure_distance", blas |-> blas,
     vec1 |-> original_embedding, vec2 |-> final_embedding,
     raised |-> similarity.raised,
     similarity |-> similarity.val, distance |-> distance.val,
     reported |-> IF similarity.raised THEN <<>>
                  ELSE [cosine_similarity |-> round_number(similarity.val, 6),
                        cosine_distance |-> round_number(distance.val, 6),
                        embedding_dimensions |-> Len(original_embedding)]]

\* measure_distance, from the two embeddings the provider returned; the
\* reported numbers in millionths
measure_distance(original_embedding, final_embedding, blas) ==
    MetricsFrom(original_embedding, final_embedding, blas,
                cosine_similarity(original_embedding, final_embedding, blas),
                cosine_distance(original_embedding, final_embedding, blas))

(***************************************************************************)
(* EmbeddingCalculator / ExperimentResultsCalculator:                      *)
(* calculate_cosine_distance, through sklearn's cosine_distances: rows     *)
(* normalised, their dot product, 1 - S clipped to [0, 2].                 *)
(***************************************************************************)
\* a row divided by n, a row of norm zero left as it is
DivideBy(a, n) ==
    IF n = DZero THEN a ELSE [i \in 1..Len(a) |-> ddiv(a[i], n)] \o <<>>

normalize(a, blas) == DivideBy(a, norm(a, blas))

clip(x, lo, hi) == IF dlt(x, lo) THEN lo ELSE IF dgt(x, hi) THEN hi ELSE x

\* 1 - S clipped to [0, 2]; 1 - 0 is 1
OneMinus(S) ==
    IF S = DZero THEN DOne ELSE clip(dadd(dneg(S), DOne), DZero, DTwo)

\* S the dot product of the normalised rows
DistanceFrom(x_normalized, y_normalized, blas) ==
    OneMinus(dot(x_normalized, y_normalized, blas))

cosine_distances(x, y, blas) == DistanceFrom(normalize(x, blas), normalize(y, blas), blas)

\* the result of calculate_cosine_distance from the distance
ResultFrom(embedding1, embedding2, blas, distance) ==
    [engine |-> "calculate_cosine_distance", blas |-> blas,
     vec1 |-> embedding1, vec2 |-> embedding2,
     raised |-> FALSE, distance |-> distance, similarity |-> dsub(DOne, distance),
     reported |-> <<>>]

calculate_cosine_distance(embedding1, embedding2, blas) ==
    IF Len(embedding1) # Len(embedding2)
    THEN [engine |-> "calculate_cosine_distance", blas |-> blas,
          vec1 |-> embedding1, vec2 |-> embedding2,
          raised |-> TRUE, similarity |-> DZero, distance |-> DZero, reported |-> <<>>]
    ELSE ResultFrom(embedding1, embedding2, blas, cosine_distances(embedding1, embedding2, blas))

(***************************************************************************)
(* SpecDistance: a caller compares two embeddings with either engine.      *)
(***************************************************************************)
InitDistance ==
    /\ rng = NoGenerator
    /\ pc = "idle"
    /\ call = NoCall
    /\ runs = <<>>
    /\ dist = NoDist
    /\ job = NoJob
    /\ files = NoFiles
    /\ cachedir = NoCache
    /\ runner = NoRunner
    /\ analysis = NoAnalysis
    /\ stats = NoStats
    /\ load = NoLoad
    /\ procs = NoProcs
    /\ disk = NoDisk

\* EmbeddingsCalculator.cosine_similarity and cosine_distance on two vectors
CosineCall ==
    /\ pc = "idle"
    /\ \E vec1 \in Vectors, vec2 \in Vectors, blas \in Builds :
          LET s == cosine_similarity(vec1, vec2, blas)
          IN dist' = [engine |-> "cosine_distance", blas |-> blas,
                      vec1 |-> vec1, vec2 |-> vec2,
                      raised |-> s.raised, similarity |-> s.val,
                      distance |-> cosine_distance(vec1, vec2, blas).val,
                      reported |-> <<>>]
    /\ pc' = "called"
    /\ UNCHANGED <<rng, call, runs, job, files, cachedir, runner, analysis, stats, load, procs, disk>>

\* EmbeddingsCalculator.measure_distance
MeasureDistance ==
    /\ pc = "idle"
    /\ \E e1 \in Vectors, e2 \in Vectors, blas \in Builds :
          dist' = measure_distance(e1, e2, blas)
    /\ pc' = "called"
    /\ UNCHANGED <<rng, call, runs, job, files, cachedir, runner, analysis, stats, load, procs, disk>>

\* ExperimentResultsCalculator.calculate_cosine_distance
CalculateCosineDistance ==
    /\ pc = "idle"
    /\ \E e1 \in Vectors, e2 \in Vectors, blas \in Builds :
          dist' = calculate_cosine_distance(e1, e2, blas)
    /\ pc' = "called"
    /\ UNCHANGED <<rng, call, runs, job, files, cachedir, runner, analysis, stats, load, procs, disk>>

DistanceReturn ==
    /\ pc = "called"
    /\ pc' = "idle"
    /\ dist' = NoDist
    /\ UNCHANGED <<rng, call, runs, job, files, cachedir, runner, analysis, stats, load, procs, disk>>

NextDistance == CosineCall \/ MeasureDistance \/ CalculateCosineDistance \/ DistanceReturn

SpecDistance == InitDistance /\ [][NextDistance]_vars


(***************************************************************************)
(* Properties of the distance engines.                                     *)
(***************************************************************************)
\* a comparison of two vectors of one length has returned
Compared == pc = "called" /\ dist.engine # "none" /\ ~dist.raised /\ Len(dist.vec1) = Len(dist.vec2)

Abs(x) == IF x < 0 THEN 0 - x ELSE x

NonZero(a) == \E i \in 1..Len(a) : a[i] # DZero

\* C7: for vectors of one length the similarity lies in [-1, 1] and the
\* distance in [0, 2], a zero vector included.
C7_SimilarityAndDistanceInRange ==
    Compared => /\ dle(dneg(DOne), dist.similarity) /\ dle(dist.similarity, DOne)
                /\ dle(DZero, dist.distance) /\ dle(dist.distance, DTwo)

\* C8: similarity and distance are symmetric: comparing B with A gives what
\* comparing A with B gave.
C8_Symmetric ==
    Compared =>
        IF dist.engine = "calculate_cosine_distance"
        THEN LET swapped == calculate_cosine_distance(dist.vec2, dist.vec1, dist.blas)
             IN swapped.distance = dist.distance /\ swapped.similarity = dist.similarity
        ELSE /\ cosine_similarity(dist.vec2, dist.vec1, dist.blas).val = dist.similarity
             /\ cosine_distance(dist.vec2, dist.vec1, dist.blas).val = dist.distance

\* two vectors of different norms, neither parallel nor orthogonal
C8_Witness ==
    /\ Compared
    /\ dist.engine = "cosine_distance"
    /\ Len(dist.vec1) = 2
    /\ norm(dist.vec1, dist.blas) # norm(dist.vec2, dist.blas)
    /\ dist.similarity \notin {dneg(DOne), DZero, DOne}
    /\ dist.distance = dsub(DOne, dist.similarity)

\* C9: a nonzero vector compared with itself has distance 0 and
\* similarity 1.
C9_SelfComparisonExact ==
    Compared /\ dist.vec1 = dist.vec2 /\ NonZero(dist.vec1)
        => dist.distance = DZero /\ dist.similarity = DOne

\* C10: the similarity and the distance measure_distance reports, each
\* rounded on its own, add up to 1 to within less than one unit of the
\* last digit kept.
C10_ReportedSumIsOne ==
    Compared /\ dist.engine = "measure_distance"
        => /\ dist.reported.cosine_similarity # <<>>
           /\ dist.reported.cosine_distance # <<>>
           /\ Abs(dist.reported.cosine_similarity[1] + dist.reported.cosine_distance[1]
                  - 10 ^ 6) < 1

\* C11: whenever the two embeddings differ in length the comparison fails
\* with a dimension-mismatch error and returns no similarity or distance,
\* a vector of zero magnitude included.
C11_DimensionMismatchRejected ==
    pc = "called" /\ dist.engine # "none" /\ Len(dist.vec1) # Len(dist.vec2)
        => dist.raised /\ dist.reported = <<>>

(***************************************************************************)
(* The caching calculators: EmbeddingCalculator and                        *)
(* ExperimentResultsCalculator.  An instance holds a sentence-embedding    *)
(* model and a cache directory; the instances modelled share the default   *)
(* directory ".cache".                                                     *)
(***************************************************************************)
MaxInstances == 2
MaxExperiments == 2

Instances == 1..MaxInstances

Texts == {"x", "y", "z"}

ModelNames == {"all-MiniLM-L6-v2", "paraphrase-albert-small-v2"}

TextCode(text) == CASE text = "x" -> 1 [] text = "y" -> 2 [] OTHER -> 3

\* self.model.encode(text, convert_to_numpy=True): a model's vector for a
\* text; the models differ in the vectors and in their dimension
encode(model_name, text) ==
    IF model_name = "all-MiniLM-L6-v2"
    THEN <<DInt(TextCode(text)), DOne>>
    ELSE <<DInt(0 - TextCode(text))>>

\* hashlib.md5(text.encode()).hexdigest(): one digest per modelled text
md5(text) == <<"md5", text>>

\* cache_dir / f"embedding_{text_hash}.npy"
get_embedding_cache_path(text) == [prefix |-> "embedding_", text_hash |-> md5(text), ext |-> ".npy"]

\* get_or_calculate_embedding without np.save
get_or_calculate_embedding_unsaved(model_name, text, dir) ==
    LET cache_path == get_embedding_cache_path(text)
    IN IF cache_path \in DOMAIN dir
       THEN [val |-> dir[cache_path], dir |-> dir, encoded |-> FALSE]
       ELSE [val |-> encode(model_name, text), dir |-> dir, encoded |-> TRUE]

\* get_or_calculate_embedding: np.load on a hit; encode and np.save on a miss
get_or_calculate_embedding(model_name, text, dir) ==
    LET cache_path == get_embedding_cache_path(text)
    IN IF cache_path \in DOMAIN dir
       THEN [val |-> dir[cache_path], dir |-> dir, encoded |-> FALSE]
       ELSE LET embedding == encode(model_name, text)
            IN [val |-> embedding,
                dir |-> [n \in DOMAIN dir \cup {cache_path} |->
                            IF n = cache_path THEN embedding ELSE dir[n]],
                encoded |-> TRUE]

Experiments ==
    [error_percentage : {0, 10}, original_english : Texts, final_english : Texts]

ExperimentLists == UNION { [1..n -> Experiments] : n \in 0..MaxExperiments }

\* results.insert(0, result)
append_result_in_front(results, exp, distance, similarity) ==
    <<[error_percentage |-> exp.error_percentage,
       original_english |-> exp.original_english,
       final_english |-> exp.final_english,
       cosine_distance |-> distance,
       cosine_similarity |-> similarity]>> \o results

\* results.append(result)
append_result(results, exp, distance, similarity) ==
    Append(results, [error_percentage |-> exp.error_percentage,
                     original_english |-> exp.original_english,
                     final_english |-> exp.final_english,
                     cosine_distance |-> distance,
                     cosine_similarity |-> similarity])

InitCache ==
    /\ rng = NoGenerator
    /\ pc = "idle"
    /\ call = NoCall
    /\ runs = <<>>
    /\ dist = NoDist
    /\ job = NoJob
    /\ files = NoFiles
    /\ cachedir = NoCache
    /\ runner = NoRunner
    /\ analysis = NoAnalysis
    /\ stats = NoStats
    /\ load = NoLoad
    /\ procs = NoProcs
    /\ disk = NoDisk

\* __init__ of instance i: the cache directory is made if missing, the model loaded
Construct(i) ==
    /\ i \notin DOMAIN runner.model_name
    /\ \E model_name \in ModelNames :
          runner' = [runner EXCEPT
                       !.model_name = [j \in DOMAIN runner.model_name \cup {i} |->
                                          IF j = i THEN model_name ELSE runner.model_name[j]]]
    /\ UNCHANGED <<rng, pc, call, runs, dist, job, files, cachedir, analysis, stats, load, procs, disk>>

CacheConstruct == \E i \in Instances : Construct(i)

\* instance.get_or_calculate_embedding(text), called on its own
GetOrCalculate ==
    /\ runner.pc = "none"
    /\ \E i \in DOMAIN runner.model_name, text \in Texts :
          \E got \in {get_or_calculate_embedding(runner.model_name[i], text, cachedir)} :
             /\ cachedir' = got.dir
             /\ runner' = [runner EXCEPT
                             !.last = [instance |-> i, text |-> text, val |-> got.val,
                                       encoded |-> got.encoded],
                             !.encoded = IF got.encoded THEN Append(@, text) ELSE @]
    /\ UNCHANGED <<rng, pc, call, runs, dist, job, files, analysis, stats, load, procs, disk>>

NextCache == CacheConstruct \/ GetOrCalculate

SpecCache == InitCache /\ [][NextCache]_vars

(***************************************************************************)
(* SpecRunner: one run of process_all_experiments by one instance, from    *)
(* an empty cache.                                                         *)
(***************************************************************************)
RunnerConstruct == runner.pc = "none" /\ Construct(1)

\* process_all_experiments(experiments): results = []
ProcessStart ==
    /\ runner.pc = "none"
    /\ 1 \in DOMAIN runner.model_name
    /\ \E experiments \in ExperimentLists, blas \in Builds :
          runner' = [runner EXCEPT !.pc = "loop", !.blas = blas, !.experiments = experiments,
                                   !.i = 1, !.results = <<>>]
    /\ UNCHANGED <<rng, pc, call, runs, dist, job, files, cachedir, analysis, stats, load, procs, disk>>

\* one pass of the loop: both embeddings, the distance, the record appended;
\* an element without the three keys raises at exp["original_english"]
ProcessExperiment ==
    /\ runner.pc = "loop"
    /\ runner.i <= Len(runner.experiments)
    /\ LET exp == runner.experiments[runner.i]
           model_name == runner.model_name[1]
       IN IF "original_english" \notin DOMAIN exp
          THEN /\ cachedir' = cachedir
               /\ runner' = [runner EXCEPT !.pc = "failed"]
          ELSE
          \E original_emb \in {get_or_calculate_embedding(model_name, exp.original_english, cachedir)} :
          \E final_emb \in {get_or_calculate_embedding(model_name, exp.final_english, original_emb.dir)} :
          \E d \in {calculate_cosine_distance(original_emb.val, final_emb.val, runner.blas)} :
             /\ cachedir' = final_emb.dir
             /\ runner' = [runner EXCEPT
                             !.pc = IF d.raised THEN "failed" ELSE "loop",
                             !.i = IF d.raised THEN @ ELSE @ + 1,
                             !.results = IF d.raised THEN @
                                         ELSE append_result(@, exp, d.distance, d.similarity),
                             !.encoded = @ \o (IF original_emb.encoded THEN <<exp.original_english>> ELSE <<>>)
                                           \o (IF final_emb.encoded THEN <<exp.final_english>> ELSE <<>>)]
    /\ UNCHANGED <<rng, pc, call, runs, dist, job, files, analysis, stats, load, procs, disk>>

\* return results
ProcessReturn ==
    /\ runner.pc = "loop"
    /\ runner.i > Len(runner.experiments)
    /\ runner' = [runner EXCEPT !.pc = "returned"]
    /\ UNCHANGED <<rng, pc, call, runs, dist, job, files, cachedir, analysis, stats, load, procs, disk>>

NextRunner == RunnerConstruct \/ ProcessStart \/ ProcessExperiment \/ ProcessReturn

SpecRunner == InitCache /\ [][NextRunner]_vars

(***************************************************************************)
(* Properties of the caching calculators.                                  *)
(***************************************************************************)
\* record k of the results carries experiment k's three fields
Carries(k) ==
    /\ runner.results[k].error_percentage = runner.experiments[k].error_percentage
    /\ runner.results[k].original_english = runner.experiments[k].original_english
    /\ runner.results[k].final_english = runner.experiments[k].final_english

ResultsFollowInput ==
    /\ runner.pc = "loop" => Len(runner.results) = runner.i - 1
    /\ runner.pc = "returned" => Len(runner.results) = Len(runner.experiments)
    /\ runner.pc \in {"loop", "returned"} => \A k \in 1..Len(runner.results) : Carries(k)
    /\ runner.pc = "returned" /\ runner.experiments = <<>>
          => runner.results = <<>> /\ runner.encoded = <<>>

ResultsOnlyAppended ==
    runner.results' # runner.results
        => /\ Len(runner.results') = Len(runner.results) + 1
           /\ SubSeq(runner.results', 1, Len(runner.results)) = runner.results

\* C12: process_all_experiments returns one record per experiment, in input
\* order, record i carrying experiment i's error_percentage,
\* original_english and final_english; the result list only grows by
\* appending; an empty input gives an empty list and no embedding call.
C12_OneRecordPerExperimentInOrder ==
    [](ResultsFollowInput) /\ [][ResultsOnlyAppended]_vars

\* a run over two different experiments has returned
C12_Witness ==
    /\ runner.pc = "returned"
    /\ Len(runner.experiments) = 2
    /\ runner.experiments[1] # runner.experiments[2]
    /\ Len(runner.results) = 2
    /\ Carries(1) /\ Carries(2)

\* C14: the vector get_or_calculate_embedding returns is the vector the
\* calling instance's own model produces for the text, whatever calls were
\* made before and whichever instance made them.
C14_CacheNeverAltersResult ==
    runner.last # <<>>
        => runner.last.val = encode(runner.model_name[runner.last.instance], runner.last.text)

\* the texts of the experiments processed so far, originals and finals
TextsSeen ==
    { runner.experiments[k].original_english : k \in 1..(runner.i - 1) }
        \cup { runner.experiments[k].final_english : k \in 1..(runner.i - 1) }

\* C15: in a run that starts with an empty cache the model is invoked once
\* per distinct text of the experiments processed, and every text
\* processed has its cache entry.
C15_OneEncodePerDistinctText ==
    runner.pc \in {"loop", "returned"}
        => /\ { runner.encoded[k] : k \in 1..Len(runner.encoded) } = TextsSeen
           /\ Len(runner.encoded) = Cardinality(TextsSeen)
           /\ \A text \in TextsSeen : get_embedding_cache_path(text) \in DOMAIN cachedir

\* a run whose two experiments share texts has returned: four lookups, fewer
\* encode calls
C15_Witness ==
    /\ runner.pc = "returned"
    /\ Len(runner.experiments) = 2
    /\ runner.experiments[1].final_english = runner.experiments[2].final_english
    /\ runner.experiments[1].original_english # runner.experiments[1].final_english
    /\ Len(runner.encoded) \in {2, 3}

(***************************************************************************)
(* EmbeddingsCalculator with its provider: get_embedding,                  *)
(* get_embeddings_batch, measure_distance and analyze_translations.  A     *)
(* call of client.embeddings.create either fails or answers with one       *)
(* datum per input text, each carrying its index, in any order.            *)
(***************************************************************************)
MaxItems == 2

\* the provider's vector for a text
provider_embedding(text) == <<DInt(TextCode(text)), DOne>>

ProviderFailure == [ok |-> FALSE, data |-> <<>>]

\* what client.embeddings.create(input=texts) may do
Responses(texts) ==
    {ProviderFailure}
        \cup { [ok |-> TRUE, data |-> [j \in 1..Len(texts) |->
                    [index |-> order[j] - 1, embedding |-> provider_embedding(texts[order[j]])]]] :
               order \in { f \in [1..Len(texts) -> 1..Len(texts)] :
                             \A a, b \in 1..Len(texts) : a # b => f[a] # f[b] } }

\* get_embedding: the first datum's embedding; an exception is logged and raised again
get_embedding(text, response) ==
    IF ~response.ok THEN [raised |-> TRUE, val |-> <<>>]
    ELSE [raised |-> FALSE, val |-> response.data[1].embedding]

\* sorted(response.data, key=lambda x: x.index)
RECURSIVE SortedByIndex(_, _)
SortedByIndex(data, n) ==
    IF n >= Len(data) THEN <<>>
    ELSE LET d == CHOOSE d \in { data[j] : j \in 1..Len(data) } : d.index = n
         IN <<d>> \o SortedByIndex(data, n + 1)

\* get_embeddings_batch answering zero vectors when the provider fails
get_embeddings_batch_defaulting(texts, response) ==
    IF ~response.ok THEN [raised |-> FALSE, val |-> [j \in 1..Len(texts) |-> <<DZero, DZero>>]]
    ELSE LET embeddings == SortedByIndex(response.data, 0)
         IN [raised |-> FALSE, val |-> [j \in 1..Len(embeddings) |-> embeddings[j].embedding]]

\* get_embeddings_batch keeping the order of the response
get_embeddings_batch_unsorted(texts, response) ==
    IF ~response.ok THEN [raised |-> TRUE, val |-> <<>>]
    ELSE [raised |-> FALSE, val |-> [j \in 1..Len(response.data) |-> response.data[j].embedding]]

\* get_embeddings_batch: the embeddings in index order; an exception is
\* logged and raised again
get_embeddings_batch(texts, response) ==
    IF ~response.ok THEN [raised |-> TRUE, val |-> <<>>]
    ELSE LET embeddings == SortedByIndex(response.data, 0)
         IN [raised |-> FALSE, val |-> [j \in 1..Len(embeddings) |-> embeddings[j].embedding]]

\* measure_distance(original_text, final_text), the provider answering response
measure_distance_of_texts(original_text, final_text, response, blas) ==
    LET embeddings == get_embeddings_batch(<<original_text, final_text>>, response)
    IN IF embeddings.raised THEN [raised |-> TRUE, reported |-> <<>>, embeddings |-> <<>>]
       ELSE LET m == measure_distance(embeddings.val[1], embeddings.val[2], blas)
            IN [raised |-> m.raised, reported |-> m.reported,
                embeddings |-> <<embeddings.val[1], embeddings.val[2]>>]

Items ==
    [error_rate : {0, 50}, original_sentence : {"x", "z"}, final_sentence : {"x", "y"},
     tokens_used : {7}]

TranslationFiles == UNION { [1..n -> Items] : n \in 0..MaxItems }

\* get_embedding(text), called on its own
GetEmbedding ==
    /\ analysis.pc = "none"
    /\ \E text \in Texts : \E response \in Responses(<<text>>) :
          \E got \in {get_embedding(text, response)} :
             analysis' = [analysis EXCEPT
                            !.calls = Append(@, <<text>>),
                            !.last = [op |-> "get_embedding", failed |-> ~response.ok,
                                      raised |-> got.raised, val |-> got.val]]
    /\ analysis.calls = <<>>
    /\ UNCHANGED <<rng, pc, call, runs, dist, job, files, cachedir, runner, stats, load, procs, disk>>

TextLists == UNION { [1..n -> Texts] : n \in 1..MaxItems }

\* get_embeddings_batch(texts), called on its own
GetEmbeddingsBatch ==
    /\ analysis.pc = "none"
    /\ analysis.calls = <<>>
    /\ \E texts \in TextLists : \E response \in Responses(texts) :
          \E got \in {get_embeddings_batch(texts, response)} :
             analysis' = [analysis EXCEPT
                            !.calls = Append(@, texts),
                            !.last = [op |-> "get_embeddings_batch", failed |-> ~response.ok,
                                      raised |-> got.raised, val |-> got.val,
                                      texts |-> texts, response |-> response]]
    /\ UNCHANGED <<rng, pc, call, runs, dist, job, files, cachedir, runner, stats, load, procs, disk>>

\* analyze_translations up to the loop: the translations file is loaded
AnalyzeStart ==
    /\ analysis.pc = "none"
    /\ \E data \in TranslationFiles, blas \in Builds :
          analysis' = [analysis EXCEPT !.pc = "loop", !.blas = blas, !.data = data, !.k = 1,
                                       !.results = <<>>, !.calls = <<>>, !.last = <<>>]
    /\ UNCHANGED <<rng, pc, call, runs, dist, job, files, cachedir, runner, stats, load, procs, disk>>

\* one pass of the loop: measure_distance and the result appended; an
\* exception leaves analyze_translations
AnalyzeItem ==
    /\ analysis.pc = "loop"
    /\ analysis.k <= Len(analysis.data)
    /\ LET item == analysis.data[analysis.k]
           texts == <<item.original_sentence, item.final_sentence>>
       IN \E response \in Responses(texts) :
          \E metrics \in {measure_distance_of_texts(texts[1], texts[2], response, analysis.blas)} :
             analysis' = [analysis EXCEPT
                !.calls = Append(@, texts),
                !.last = [op |-> "measure_distance", failed |-> ~response.ok,
                          raised |-> metrics.raised, val |-> metrics.reported,
                          texts |-> texts, response |-> response,
                          embeddings |-> metrics.embeddings],
                !.pc = IF metrics.raised THEN "raised" ELSE "loop",
                !.k = IF metrics.raised THEN @ ELSE @ + 1,
                !.results = IF metrics.raised THEN @
                            ELSE Append(@, [error_rate |-> item.error_rate,
                                            original_sentence |-> item.original_sentence,
                                            final_sentence |-> item.final_sentence,
                                            cosine_similarity |-> metrics.reported.cosine_similarity,
                                            cosine_distance |-> metrics.reported.cosine_distance,
                                            tokens_used |-> item.tokens_used])]
    /\ UNCHANGED <<rng, pc, call, runs, dist, job, files, cachedir, runner, stats, load, procs, disk>>

\* experiment_results.json and results_summary.csv are written, results returned
AnalyzeSave ==
    /\ analysis.pc = "loop"
    /\ analysis.k > Len(analysis.data)
    /\ analysis' = [analysis EXCEPT !.pc = "returned", !.saved = <<analysis.results>>]
    /\ UNCHANGED <<rng, pc, call, runs, dist, job, files, cachedir, runner, stats, load, procs, disk>>

NextAnalyze == GetEmbedding \/ GetEmbeddingsBatch \/ AnalyzeStart \/ AnalyzeItem \/ AnalyzeSave

SpecAnalyze == InitCache /\ [][NextAnalyze]_vars

\* the metrics the code computes from the provider's own vectors for an item
MetricsOf(item) ==
    measure_distance(provider_embedding(item.original_sentence),
                     provider_embedding(item.final_sentence), analysis.blas).reported

\* C13: a provider failure is raised to the caller of get_embedding,
\* get_embeddings_batch, measure_distance and analyze_translations; the
\* failed experiment gets no result record, no record holds substituted
\* values, nothing is saved, and the provider is called once per attempt.
C13_ProviderFailurePropagates ==
    /\ analysis.last # <<>> /\ analysis.last.failed
          => analysis.last.raised /\ analysis.last.val = <<>>
    /\ analysis.pc = "raised"
          => /\ Len(analysis.results) = analysis.k - 1
             /\ Len(analysis.calls) = analysis.k
             /\ analysis.saved = <<>>
    /\ analysis.pc \in {"loop", "returned"} => Len(analysis.calls) = analysis.k - 1
    /\ \A j \in 1..Len(analysis.results) :
          /\ analysis.results[j].cosine_similarity = MetricsOf(analysis.data[j]).cosine_similarity
          /\ analysis.results[j].cosine_distance = MetricsOf(analysis.data[j]).cosine_distance

\* the provider failed on the second item of a translations file
C13_Witness ==
    /\ analysis.pc = "raised"
    /\ analysis.k = 2
    /\ analysis.last.failed
    /\ Len(analysis.results) = 1
    /\ analysis.data[2].final_sentence = "y"

(***************************************************************************)
(* StatisticalAnalyzer: the results file loaded into a data frame, and     *)
(* the per-error-rate statistics and confidence intervals.  The columns    *)
(* hold doubles.  A number that may be absent (None) or not a number (NaN) *)
(* is a sequence: <<>> when absent or NaN, <<v>> when it is v.  A reported *)
(* number, round(float(x), 6), is its count of millionths.                 *)
(***************************************************************************)
MaxResults == 3

\* error rates 0, 10 and 10.5, as floats
RateValues == {DZero, DInt(10), Dec(105, 10)}

\* cosine distances 0.25 and 1.0
DistanceValues == {Dec(25, 100), DOne}

ResultRecords ==
    { [error_rate |-> r, cosine_distance |-> d, cosine_similarity |-> dsub(DOne, d)] :
        r \in RateValues, d \in DistanceValues }

ResultFiles == UNION { [1..n -> ResultRecords] : n \in 0..MaxResults }

\* df['error_rate'].unique()
unique(df) == { df[i].error_rate : i \in DOMAIN df }

\* sorted(...) of distinct numbers
RECURSIVE sorted(_)
sorted(S) ==
    IF S = {} THEN <<>>
    ELSE LET least == CHOOSE x \in S : \A y \in S : dle(x, y)
         IN <<least>> \o sorted(S \ {least})

RECURSIVE Insert(_, _)
Insert(x, ys) ==
    IF ys = <<>> THEN <<x>>
    ELSE IF dle(x, Head(ys)) THEN <<x>> \o ys
    ELSE <<Head(ys)>> \o Insert(x, Tail(ys))

\* sorted(...) of a list of numbers
RECURSIVE sorted_list(_)
sorted_list(xs) == IF xs = <<>> THEN <<>> ELSE Insert(Head(xs), sorted_list(Tail(xs)))

\* df[df['error_rate'] == rate]
subset(df, rate) == SelectSeq(df, LAMBDA rec : rec.error_rate = rate)

cosine_distance_column(sub) == [i \in DOMAIN sub |-> sub[i].cosine_distance]
cosine_similarity_column(sub) == [i \in DOMAIN sub |-> sub[i].cosine_similarity]

\* the sum of a column, added from left to right
RECURSIVE SumFrom(_, _)
SumFrom(xs, acc) == IF xs = <<>> THEN acc ELSE SumFrom(Tail(xs), dadd(acc, Head(xs)))

mean(xs) == ddiv(SumFrom(xs, DZero), DInt(Len(xs)))

\* std with ddof degrees of freedom removed; NaN when none is left
std(xs, ddof) ==
    IF Len(xs) - ddof <= 0 THEN <<>>
    ELSE LET m == mean(xs)
             sq == [i \in DOMAIN xs |-> dmul(dsub(xs[i], m), dsub(xs[i], m))]
         IN <<dsqrt(ddiv(SumFrom(sq, DZero), DInt(Len(xs) - ddof)))>>

min(xs) == CHOOSE x \in { xs[i] : i \in DOMAIN xs } : \A i \in DOMAIN xs : dle(x, xs[i])
max(xs) == CHOOSE x \in { xs[i] : i \in DOMAIN xs } : \A i \in DOMAIN xs : dle(xs[i], x)

\* round(float(x), 6) of a number that may be NaN
round_float(x) == IF x = <<>> THEN <<>> ELSE <<round_digits(x[1], 6)>>

\* the 0.975 quantiles of Student's t with 1, 2, 3 and 4 degrees of freedom
\* (12.706204736174705, 4.302652729749464, 3.1824463052837095 and
\* 2.7764451051977943)
TTable ==
    << [neg |-> FALSE, man |-> <<3364, 11057, 6458, 1626>>, exp |-> 0 - 49],
       [neg |-> FALSE, man |-> <<1723, 9093, 7849, 1101>>, exp |-> 0 - 50],
       [neg |-> FALSE, man |-> <<427, 8783, 6758, 1629>>, exp |-> 0 - 51],
       [neg |-> FALSE, man |-> <<13792, 10174, 8845, 1421>>, exp |-> 0 - 51] >>

\* stats.t.ppf(0.975, df)
t_ppf(df) == TTable[df]

describe(xs) ==
    [mean |-> round_digits(mean(xs), 6), std |-> round_float(std(xs, 1)),
     min |-> round_digits(min(xs), 6), max |-> round_digits(max(xs), 6)]

\* the entry compute_statistics_by_error_rate writes for one rate
statistics_entry(sub) ==
    [count |-> Len(sub),
     distance |-> describe(cosine_distance_column(sub)),
     similarity |-> describe(cosine_similarity_column(sub))]

\* the entry compute_confidence_intervals writes for one rate
interval_entry(sub) ==
    LET distances == cosine_distance_column(sub)
    IN IF Len(distances) > 1
       THEN LET m == mean(distances)
                se == ddiv(std(distances, 1)[1], dsqrt(DInt(Len(distances))))
                margin == dmul(t_ppf(Len(distances) - 1), se)
            IN [mean |-> round_digits(m, 6),
                lower_bound |-> <<round_digits(dsub(m, margin), 6)>>,
                upper_bound |-> <<round_digits(dadd(m, margin), 6)>>,
                margin_of_error |-> <<round_digits(margin, 6)>>, note |-> <<>>]
       ELSE [mean |-> round_digits(distances[1], 6), lower_bound |-> <<>>,
             upper_bound |-> <<>>, margin_of_error |-> <<>>,
             note |-> <<"Insufficient data for CI">>]

\* the loop over the rates: entry[rate] is stored under int(rate), a later
\* rate replacing an earlier one with the same key
RECURSIVE StoreByRate(_, _, _)
StoreByRate(rates, entry, dict) ==
    IF rates = <<>> THEN dict
    ELSE LET key == int(Head(rates))
         IN StoreByRate(Tail(rates), entry,
                        [k \in DOMAIN dict \cup {key} |->
                            IF k = key THEN entry[Head(rates)] ELSE dict[k]])

compute_statistics_by_error_rate(df) ==
    StoreByRate(sorted(unique(df)), [r \in unique(df) |-> statistics_entry(subset(df, r))], <<>>)

compute_confidence_intervals(df) ==
    StoreByRate(sorted(unique(df)), [r \in unique(df) |-> interval_entry(subset(df, r))], <<>>)

InitStats ==
    /\ InitCache
    /\ stats = NoStats

\* StatisticalAnalyzer(results_file): an empty file has no error_rate column
Load ==
    /\ stats.op = "none"
    /\ \E data \in ResultFiles :
          stats' = IF data = <<>> THEN [stats EXCEPT !.op = "init", !.raised = TRUE]
                   ELSE [stats EXCEPT !.op = "loaded", !.df = data]
    /\ UNCHANGED <<rng, pc, call, runs, dist, job, files, cachedir, runner, analysis, load, procs, disk>>

StatisticsByErrorRate ==
    /\ stats.op = "loaded"
    /\ stats' = [stats EXCEPT !.op = "compute_statistics_by_error_rate",
                              !.out = compute_statistics_by_error_rate(stats.df)]
    /\ UNCHANGED <<rng, pc, call, runs, dist, job, files, cachedir, runner, analysis, load, procs, disk>>

ConfidenceIntervals ==
    /\ stats.op = "loaded"
    /\ stats' = [stats EXCEPT !.op = "compute_confidence_intervals",
                              !.out = compute_confidence_intervals(stats.df)]
    /\ UNCHANGED <<rng, pc, call, runs, dist, job, files, cachedir, runner, analysis, load, procs, disk>>

(***************************************************************************)
(* Correlation, regression and the linearity test.  pearsonr, spearmanr,   *)
(* linregress and shapiro belong to the statistics library: what they      *)
(* return for usable data is not computed here but ranges over a few       *)
(* doubles on both sides of every threshold; what they do with unusable    *)
(* data is modelled.                                                       *)
(***************************************************************************)
\* the significance level 0.05 and the R squared of a strong fit, 0.90
SignificanceLevel == Dec(5, 100)

StrongFit == Dec(90, 100)

\* the thresholds of _interpret_correlation: 0.9, 0.7, 0.5 and 0.3
VeryStrong == Dec(9, 10)

Strong == Dec(7, 10)

Moderate == Dec(5, 10)

Weak == Dec(3, 10)

\* the thresholds of _interpret_r_squared: 0.90, 0.75, 0.50 and 0.25
ExcellentFit == Dec(90, 100)

GoodFit == Dec(75, 100)

ModerateFit == Dec(50, 100)

WeakFit == Dec(25, 100)

\* x < y of floats, false when x is NaN
Below(x, y) == x # <<>> /\ dlt(x[1], y)

\* x >= y of floats
AtLeast(x, y) == dle(y, x)

\* the float round(x, ndigits) returned, from its count of 10^-ndigits
Reported(x, ndigits) == IF x = <<>> THEN <<>> ELSE <<Dec(x[1], 10 ^ ndigits)>>

all_equal(xs) == \A i \in DOMAIN xs : xs[i] = xs[1]

error_rates(df) == [i \in DOMAIN df |-> df[i].error_rate]

\* (coefficient, p-value) pairs of a correlation of usable data
CorrelationValues ==
    { <<dneg(DOne), DZero>>, <<Dec(4, 10), Dec(2, 10)>>, <<Dec(95, 100), Dec(49, 1000)>> }

\* what pearsonr or spearmanr may do: fewer than 2 points are refused, a
\* constant input gives NaN for both numbers
Correlations(x, y) ==
    IF Len(x) < 2 THEN { [raised |-> TRUE, r |-> <<>>, p |-> <<>>] }
    ELSE IF all_equal(x) \/ all_equal(y) THEN { [raised |-> FALSE, r |-> <<>>, p |-> <<>>] }
    ELSE { [raised |-> FALSE, r |-> <<v[1]>>, p |-> <<v[2]>>] : v \in CorrelationValues }

\* _interpret_correlation; every comparison with NaN is false
_interpret_correlation(r) ==
    IF r = <<>> THEN "very weak"
    ELSE IF AtLeast(dabs(r[1]), VeryStrong) THEN "very strong"
    ELSE IF AtLeast(dabs(r[1]), Strong) THEN "strong"
    ELSE IF AtLeast(dabs(r[1]), Moderate) THEN "moderate"
    ELSE IF AtLeast(dabs(r[1]), Weak) THEN "weak"
    ELSE "very weak"

correlation_entry(c) ==
    [correlation_coefficient |-> round_float(c.r), p_value |-> round_float(c.p),
     strength |-> _interpret_correlation(c.r),
     significant |-> Below(c.p, SignificanceLevel)]

\* compute_correlation, the library answering pearson and spearman
compute_correlation(pearson, spearman) ==
    IF pearson.raised \/ spearman.raised THEN [raised |-> TRUE, out |-> <<>>]
    ELSE [raised |-> FALSE,
          out |-> [pearson |-> correlation_entry(pearson),
                   spearman |-> correlation_entry(spearman)]]

\* (r_value, p_value) pairs of a regression of usable data: the squares of
\* the r_values are 0, 0.8999998..., 0.9000001..., 0.9000005... and 1, the
\* p_values 0, 0.049999996, 0.05 and 1
RegressionValues ==
    { <<r, p>> : r \in {DZero, Dec(9486832, 10 ^ 7), Dec(9486834, 10 ^ 7),
                        Dec(9486836, 10 ^ 7), DOne},
                 p \in {DZero, Dec(49999996, 10 ^ 9), Dec(5, 100), DOne} }

\* what linregress may do: without two distinct x values it refuses the
\* data, or, in older releases of the library, returns NaN
Regressions(x, y) ==
    IF Len(x) = 0 THEN { [raised |-> TRUE, r_value |-> <<>>, p_value |-> <<>>] }
    ELSE IF all_equal(x)
    THEN { [raised |-> TRUE, r_value |-> <<>>, p_value |-> <<>>],
           [raised |-> FALSE, r_value |-> <<>>, p_value |-> <<>>] }
    ELSE { [raised |-> FALSE, r_value |-> <<v[1]>>, p_value |-> <<v[2]>>] : v \in RegressionValues }

\* _interpret_r_squared; every comparison with NaN is false
_interpret_r_squared(r_squared) ==
    IF r_squared = <<>> THEN "poor fit"
    ELSE IF AtLeast(r_squared[1], ExcellentFit) THEN "excellent fit"
    ELSE IF AtLeast(r_squared[1], GoodFit) THEN "good fit"
    ELSE IF AtLeast(r_squared[1], ModerateFit) THEN "moderate fit"
    ELSE IF AtLeast(r_squared[1], WeakFit) THEN "weak fit"
    ELSE "poor fit"

\* compute_linear_regression, the library answering fit: r_squared is
\* r_value ** 2, reported rounded to 6 digits, p_value to 8; the
\* interpretation is of the numbers before rounding
compute_linear_regression(fit) ==
    IF fit.raised THEN [raised |-> TRUE, out |-> <<>>]
    ELSE LET r_squared == IF fit.r_value = <<>> THEN <<>>
                          ELSE <<dmul(fit.r_value[1], fit.r_value[1])>>
         IN [raised |-> FALSE,
             out |-> [r_value |-> round_float(fit.r_value),
                      r_squared |-> round_float(r_squared),
                      p_value |-> IF fit.p_value = <<>> THEN <<>>
                                  ELSE <<round_digits(fit.p_value[1], 8)>>,
                      interpretation |->
                         [fit_quality |-> _interpret_r_squared(r_squared),
                          significant |-> Below(fit.p_value, SignificanceLevel)]]]

\* p-values of the Shapiro-Wilk test: 0, 0.05 and 0.051
ShapiroValues == {DZero, Dec(5, 100), Dec(51, 1000)}

\* _linearity_conclusion; residuals_normal is <<>> for None
_linearity_conclusion(slope_sig, strong_fit, residuals_normal) ==
    IF slope_sig /\ strong_fit
    THEN IF residuals_normal = <<TRUE>> \/ residuals_normal = <<>>
         THEN "ACCEPTED: Strong evidence for linear relationship"
         ELSE "PARTIAL: Linear fit is good but residuals not normal"
    ELSE IF slope_sig THEN "PARTIAL: Significant relationship but fit could be better"
    ELSE "REJECTED: No significant linear relationship detected"

\* test_linearity_hypothesis, the library answering fit and, for at least
\* 3 residuals, the Shapiro-Wilk p-value shapiro_p; the tests are of the
\* numbers compute_linear_regression reports; the reported Shapiro p-value
\* is None (<<>>) when there was no test and when the p-value is 0.0
test_linearity_hypothesis(df, fit, shapiro_p) ==
    LET regression == compute_linear_regression(fit)
    IN IF regression.raised THEN [raised |-> TRUE, out |-> <<>>]
       ELSE LET slope_significant ==
                    Below(Reported(regression.out.p_value, 8), SignificanceLevel)
                strong_linear ==
                    regression.out.r_squared # <<>>
                       /\ dgt(Reported(regression.out.r_squared, 6)[1], StrongFit)
                residuals_normal ==
                    IF Len(df) >= 3 THEN <<dgt(shapiro_p, SignificanceLevel)>> ELSE <<>>
            IN [raised |-> FALSE,
                out |-> [slope_significant |-> slope_significant,
                         strong_linear_fit |-> strong_linear,
                         r_squared |-> regression.out.r_squared,
                         p_value |-> regression.out.p_value,
                         residuals_normal |-> residuals_normal,
                         shapiro_test |->
                             [p_value |-> IF Len(df) >= 3 /\ shapiro_p # DZero
                                          THEN <<round_digits(shapiro_p, 6)>> ELSE <<>>],
                         conclusion |-> _linearity_conclusion(slope_significant, strong_linear,
                                                              residuals_normal)]]

Correlation ==
    /\ stats.op = "loaded"
    /\ \E pearson \in Correlations(error_rates(stats.df), cosine_distance_column(stats.df)) :
       \E spearman \in Correlations(error_rates(stats.df), cosine_distance_column(stats.df)) :
       \E res \in {compute_correlation(pearson, spearman)} :
          stats' = [stats EXCEPT !.op = "compute_correlation",
                                 !.raised = res.raised, !.out = res.out]
    /\ UNCHANGED <<rng, pc, call, runs, dist, job, files, cachedir, runner, analysis, load, procs, disk>>

Regression ==
    /\ stats.op = "loaded"
    /\ \E fit \in Regressions(error_rates(stats.df), cosine_distance_column(stats.df)) :
       \E res \in {compute_linear_regression(fit)} :
          stats' = [stats EXCEPT !.op = "compute_linear_regression",
                                 !.raised = res.raised, !.out = res.out]
    /\ UNCHANGED <<rng, pc, call, runs, dist, job, files, cachedir, runner, analysis, load, procs, disk>>

TestLinearity ==
    /\ stats.op = "loaded"
    /\ \E fit \in Regressions(error_rates(stats.df), cosine_distance_column(stats.df)) :
       \E shapiro_p \in ShapiroValues :
       \E res \in {test_linearity_hypothesis(stats.df, fit, shapiro_p)} :
          stats' = [stats EXCEPT !.op = "test_linearity_hypothesis",
                                 !.raised = res.raised, !.out = res.out, !.fit = fit]
    /\ UNCHANGED <<rng, pc, call, runs, dist, job, files, cachedir, runner, analysis, load, procs, disk>>

(***************************************************************************)
(* print_statistical_analysis: the printed report as a header and the      *)
(* distance-change lines.  A printed number is its sign and its digits,    *)
(* the count of the last place printed.                                    *)
(***************************************************************************)
\* cosine distances of the printed results: -2.220446049250313e-16 (what
\* cosine_distance returns for [3, 3] and itself), 0, 0.5 and 1.0
PrintDistances == {dneg(Ulp1), DZero, Dec(5, 10), DOne}

PrintRecords == [error_percentage : {0, 10}, cosine_distance : PrintDistances]

PrintLists == UNION { [1..n -> PrintRecords] : n \in 0..MaxResults }

\* f"{x:.6f}"
format_fixed(x, ndigits) ==
    [sign |-> IF x.neg THEN "-" ELSE "", digits |-> Nearest(x, ndigits)]

\* f"{x:+.6f}" and f"{x:+.2f}"
format_signed(x, ndigits) ==
    [sign |-> IF x.neg THEN "-" ELSE "+", digits |-> Nearest(x, ndigits)]

\* list.index(value)
index(xs, value) == CHOOSE i \in DOMAIN xs : xs[i] = value /\ \A j \in 1..(i - 1) : xs[j] # value

\* pct_change, dividing whatever the previous distance is
pct_change_unguarded(change, prev_dist) ==
    IF prev_dist = DZero THEN DZero ELSE dmul(ddiv(change, prev_dist), DInt(100))

\* pct_change: (change / prev_dist * 100) if prev_dist > 0 else 0
pct_change(change, prev_dist) ==
    IF dgt(prev_dist, DZero) THEN dmul(ddiv(change, prev_dist), DInt(100)) ELSE DZero

\* the lines of the loop for i in range(1, len(results)), from the pair
\* (i-1, i) on; sequences count from 1, so the pair is (i, i+1) here
RECURSIVE change_lines(_, _)
change_lines(results, i) ==
    IF i + 1 > Len(results) THEN <<>>
    ELSE LET prev_dist == results[i].cosine_distance
             curr_dist == results[i + 1].cosine_distance
             change == dsub(curr_dist, prev_dist)
         IN << [from |-> results[i].error_percentage,
                to |-> results[i + 1].error_percentage,
                change |-> format_signed(change, 6),
                pct |-> format_signed(pct_change(change, prev_dist), 2)] >>
            \o change_lines(results, i + 1)

\* print_statistical_analysis; min() of an empty list raises
print_statistical_analysis(results) ==
    IF results = <<>> THEN [raised |-> TRUE, out |-> <<>>]
    ELSE LET distances == [i \in DOMAIN results |-> results[i].cosine_distance]
         IN [raised |-> FALSE,
             out |-> [minimum |-> format_fixed(min(distances), 6),
                      minimum_at |-> results[index(distances, min(distances))].error_percentage,
                      maximum |-> format_fixed(max(distances), 6),
                      maximum_at |-> results[index(distances, max(distances))].error_percentage,
                      average |-> format_fixed(mean(distances), 6),
                      deviation |-> format_fixed(std(distances, 0)[1], 6),
                      lines |-> change_lines(results, 1)]]

PrintStatisticalAnalysis ==
    /\ stats.op = "none"
    /\ \E results \in PrintLists :
       \E res \in {print_statistical_analysis(results)} :
          stats' = [stats EXCEPT !.op = "print_statistical_analysis", !.df = results,
                                 !.raised = res.raised, !.out = res.out]
    /\ UNCHANGED <<rng, pc, call, runs, dist, job, files, cachedir, runner, analysis, load, procs, disk>>

\* compute_distribution_analysis, its mean, min and max of the distances
compute_distribution_analysis(df) ==
    [distance |-> [mean |-> round_digits(mean(cosine_distance_column(df)), 6),
                   min |-> round_digits(min(cosine_distance_column(df)), 6),
                   max |-> round_digits(max(cosine_distance_column(df)), 6)]]

\* the sections of the report that the data alone determine
descriptive_sections(df) ==
    [metadata |-> [data_points |-> Len(df),
                   error_rates_tested |-> sorted_list(error_rates(df))],
     statistics_by_error_rate |-> compute_statistics_by_error_rate(df),
     confidence_intervals |-> compute_confidence_intervals(df),
     distribution_analysis |-> compute_distribution_analysis(df)]

\* what compute_correlation may return for the data, the library answering
\* pearsonr and spearmanr
correlation_sections(df) ==
    { compute_correlation(pearson, spearman) :
        pearson \in Correlations(error_rates(df), cosine_distance_column(df)),
        spearman \in Correlations(error_rates(df), cosine_distance_column(df)) }

\* generate_comprehensive_report, from what the methods it calls returned:
\* a method that fails makes the report fail
generate_comprehensive_report(descriptive, correlation, regression, linearity) ==
    IF correlation.raised \/ regression.raised \/ linearity.raised
    THEN [raised |-> TRUE, out |-> <<>>]
    ELSE [raised |-> FALSE,
          out |-> [metadata |-> descriptive.metadata,
                   correlation_analysis |-> correlation.out,
                   linear_regression |-> regression.out,
                   statistics_by_error_rate |-> descriptive.statistics_by_error_rate,
                   confidence_intervals |-> descriptive.confidence_intervals,
                   linearity_hypothesis_test |-> linearity.out,
                   distribution_analysis |-> descriptive.distribution_analysis]]

\* the report assembled from the sections
ReportOf(descriptive, correlations, regression, linearity) ==
    \E correlation \in correlations :
    \E res \in {generate_comprehensive_report(descriptive, correlation, regression, linearity)} :
       stats' = [stats EXCEPT !.op = "generate_comprehensive_report",
                              !.raised = res.raised, !.out = res.out]

\* the library answering fit and shapiro_p: the same data give the same
\* fit in the regression section and in the linearity section
ReportWith(descriptive, correlations) ==
    \E fit \in Regressions(error_rates(stats.df), cosine_distance_column(stats.df)) :
    \E shapiro_p \in ShapiroValues :
       ReportOf(descriptive, correlations, compute_linear_regression(fit),
                test_linearity_hypothesis(stats.df, fit, shapiro_p))

\* generate_comprehensive_report on the loaded data
ComprehensiveReport ==
    /\ stats.op = "loaded"
    /\ ReportWith(descriptive_sections(stats.df), correlation_sections(stats.df))
    /\ UNCHANGED <<rng, pc, call, runs, dist, job, files, cachedir, runner, analysis,
                   load, procs, disk>>

NextReport == Load \/ ComprehensiveReport

SpecReport == InitStats /\ [][NextReport]_vars

NextStats ==
    \/ Load
    \/ StatisticsByErrorRate
    \/ ConfidenceIntervals
    \/ Correlation
    \/ Regression
    \/ TestLinearity
    \/ PrintStatisticalAnalysis

SpecStats == InitStats /\ [][NextStats]_vars

(***************************************************************************)
(* Properties of the statistics.                                           *)
(***************************************************************************)
Verdict ==
    IF stats.out.conclusion = "ACCEPTED: Strong evidence for linear relationship" THEN "ACCEPTED"
    ELSE IF stats.out.conclusion \in {"PARTIAL: Linear fit is good but residuals not normal",
                                      "PARTIAL: Significant relationship but fit could be better"}
    THEN "PARTIAL"
    ELSE IF stats.out.conclusion = "REJECTED: No significant linear relationship detected"
    THEN "REJECTED"
    ELSE "none"

Concluded == stats.op = "test_linearity_hypothesis" /\ ~stats.raised

\* C16: the linearity conclusion is ACCEPTED exactly when the slope is
\* significant (the regression's p-value is below 0.05), R squared (the
\* square of the regression's r-value) exceeds 0.90 and the residuals are
\* normal or there are fewer than 3 points; PARTIAL exactly when the slope
\* is significant and that conjunction fails; REJECTED exactly when the
\* slope is not significant.
C16_ConclusionFollowsTests ==
    Concluded =>
        LET significant == Below(stats.fit.p_value, SignificanceLevel)
            strong == /\ stats.fit.r_value # <<>>
                      /\ dgt(dmul(stats.fit.r_value[1], stats.fit.r_value[1]), StrongFit)
            normal == IF Len(stats.df) < 3 THEN TRUE
                      ELSE stats.out.residuals_normal = <<TRUE>>
        IN /\ Verdict = "ACCEPTED" <=> significant /\ strong /\ normal
           /\ Verdict = "PARTIAL" <=> significant /\ ~(strong /\ normal)
           /\ Verdict = "REJECTED" <=> ~significant

\* C17: in the report of compute_confidence_intervals every bucket of
\* fewer than 2 observations has null lower_bound, upper_bound and
\* margin_of_error and a note, and every bucket of at least 2 observations
\* has non-null bounds with lower_bound <= mean <= upper_bound and no note.
C17_SmallBucketsNullLargeBucketsBounded ==
    stats.op = "compute_confidence_intervals" =>
        /\ ~stats.raised
        /\ \A rate \in unique(stats.df) :
              LET observations == Len(subset(stats.df, rate))
                  bucket == stats.out[int(rate)]
              IN IF observations < 2
                 THEN /\ bucket.lower_bound = <<>>
                      /\ bucket.upper_bound = <<>>
                      /\ bucket.margin_of_error = <<>>
                      /\ bucket.note # <<>>
                 ELSE /\ bucket.lower_bound # <<>>
                      /\ bucket.upper_bound # <<>>
                      /\ bucket.note = <<>>
                      /\ bucket.lower_bound[1] <= bucket.mean
                      /\ bucket.mean <= bucket.upper_bound[1]

DistinctRates(df) == Cardinality(unique(df))

\* C18: with fewer than 2 distinct error rates the correlation and the
\* regression fail and return no coefficient.
C18_InsufficientDataFails ==
    /\ stats.op = "init" => stats.raised
    /\ stats.op \in {"compute_correlation", "compute_linear_regression"}
          /\ DistinctRates(stats.df) < 2
          => stats.raised /\ stats.out = <<>>

RECURSIVE SumOfCounts(_, _)
SumOfCounts(report, keys) ==
    IF keys = {} THEN 0
    ELSE LET k == CHOOSE k \in keys : TRUE
         IN report[k].count + SumOfCounts(report, keys \ {k})

\* C19: the per-rate reports hold exactly one bucket per distinct error
\* rate of the input, each computed over exactly the records with that
\* rate, and the counts sum to the number of records.
C19_OneBucketPerDistinctRate ==
    /\ stats.op = "compute_statistics_by_error_rate" =>
          /\ Cardinality(DOMAIN stats.out) = DistinctRates(stats.df)
          /\ \A rate \in unique(stats.df) :
                stats.out[int(rate)] = statistics_entry(subset(stats.df, rate))
          /\ SumOfCounts(stats.out, DOMAIN stats.out) = Len(stats.df)
    /\ stats.op = "compute_confidence_intervals" =>
          /\ Cardinality(DOMAIN stats.out) = DistinctRates(stats.df)
          /\ \A rate \in unique(stats.df) :
                stats.out[int(rate)] = interval_entry(subset(stats.df, rate))

Printed == stats.op = "print_statistical_analysis"

\* C20: for n >= 1 results print_statistical_analysis prints n-1 change
\* lines, line i for the pair (i-1, i) in list order, with change =
\* distance[i] - distance[i-1] and percentage = change / distance[i-1] * 100,
\* or 0 when distance[i-1] is not positive.
C20_OneChangeLinePerConsecutivePair ==
    Printed /\ Len(stats.df) >= 1 =>
        /\ ~stats.raised
        /\ Len(stats.out.lines) = Len(stats.df) - 1
        /\ \A i \in 1..Len(stats.out.lines) :
              LET before == stats.df[i].cosine_distance
                  change == dsub(stats.df[i + 1].cosine_distance, before)
                  line == stats.out.lines[i]
              IN /\ line.from = stats.df[i].error_percentage
                 /\ line.to = stats.df[i + 1].error_percentage
                 /\ line.change = format_signed(change, 6)
                 /\ line.pct = IF dgt(before, DZero)
                               THEN format_signed(dmul(ddiv(change, before), DInt(100)), 2)
                               ELSE format_signed(DZero, 2)

\* three results: the first distance is negative, so the first percentage
\* is 0; the second is positive and its percentage is not
C20_Witness ==
    /\ Printed
    /\ Len(stats.df) = 3
    /\ dlt(stats.df[1].cosine_distance, DZero)
    /\ stats.out.lines[1].pct.digits = <<>>
    /\ dgt(stats.df[2].cosine_distance, DZero)
    /\ stats.out.lines[2].pct.digits # <<>>

(***************************************************************************)
(* calculate_results.main: the experiments are loaded from --input or      *)
(* taken from the hard-coded defaults, then processed and saved.  An       *)
(* optional value is a sequence: <<>> for None, <<v>> for v.               *)
(***************************************************************************)
\* get_default_experiments(), shortened to its first two experiments
get_default_experiments ==
    << [error_percentage |-> 0, original_english |-> "x", final_english |-> "y"],
       [error_percentage |-> 10, original_english |-> "z", final_english |-> "y"] >>

\* the experiments an input file may list
FileExperiments == [error_percentage : {0}, original_english : {"x"}, final_english : Texts]

FileLists == UNION { [1..n -> FileExperiments] : n \in 0..MaxExperiments }

\* what the path given with --input may hold: nothing, a directory, bytes
\* that are not UTF-8, text that is not JSON, JSON that is neither a list
\* nor an object with the key, a list, and an object whose 'experiments' is
\* a list, null or a string (a string's elements are its characters)
InputFiles ==
    { [kind |-> k, experiments |-> <<>>] :
        k \in {"missing", "directory", "invalid_utf8", "invalid_json",
               "object_without_key", "scalar", "object_key_null"} }
        \cup { [kind |-> k, experiments |-> e] : k \in {"list", "object"}, e \in FileLists }
        \cup { [kind |-> "object_key_string", experiments |-> <<[char |-> "a"], [char |-> "b"]>>] }

\* args.input: absent, the empty string, or a path
InputArguments == { <<>>, <<"">>, <<"experiments.json">> }

\* load_experiments(input_file): the value returned, <<>> for None after a
\* handled error, or the exception that only FileNotFoundError and
\* json.JSONDecodeError being caught lets through
load_experiments(file) ==
    IF file.kind = "missing" THEN [raised |-> "", val |-> <<>>]
    ELSE IF file.kind = "directory" THEN [raised |-> "IsADirectoryError", val |-> <<>>]
    ELSE IF file.kind = "invalid_utf8" THEN [raised |-> "UnicodeDecodeError", val |-> <<>>]
    ELSE IF file.kind = "invalid_json" THEN [raised |-> "", val |-> <<>>]
    ELSE IF file.kind = "list" THEN [raised |-> "", val |-> <<file.experiments>>]
    ELSE IF file.kind \in {"object", "object_key_string"}
    THEN [raised |-> "", val |-> <<file.experiments>>]
    ELSE IF file.kind = "object_key_null" THEN [raised |-> "TypeError", val |-> <<>>]
    ELSE [raised |-> "", val |-> <<>>]

\* the cache directory main finds: empty, or left by an earlier run of
\* this model or of another one
FoundCaches ==
    { NoCache }
        \cup { (get_embedding_cache_path("x") :> encode(m, "x")) : m \in ModelNames }

InitLoad ==
    /\ rng = NoGenerator
    /\ pc = "idle"
    /\ call = NoCall
    /\ runs = <<>>
    /\ dist = NoDist
    /\ job = NoJob
    /\ files = NoFiles
    /\ cachedir \in FoundCaches
    /\ runner = NoRunner
    /\ analysis = NoAnalysis
    /\ stats = NoStats
    /\ load = NoLoad
    /\ procs = NoProcs
    /\ disk = NoDisk

\* main up to the loop: the cache cleared with --clear-cache, the
\* experiments chosen, the calculator constructed, process_all_experiments
\* entered; an exception of load_experiments ends main
MainLoad ==
    /\ load.pc = "none"
    /\ runner.pc = "none"
    /\ \E clear_cache \in BOOLEAN, input \in InputArguments, file \in InputFiles, blas \in Builds :
          LET given == input # <<>> /\ input[1] # ""
              loaded == IF given THEN load_experiments(file) ELSE [raised |-> "", val |-> <<>>]
              experiments == IF loaded.val = <<>> THEN get_default_experiments
                             ELSE loaded.val[1]
          IN /\ cachedir' = IF clear_cache THEN NoCache ELSE cachedir
             /\ IF loaded.raised # ""
                THEN /\ load' = [load EXCEPT !.pc = "raised", !.input = input, !.file = file,
                                             !.clear_cache = clear_cache,
                                             !.raised = loaded.raised]
                     /\ runner' = runner
                ELSE /\ load' = [load EXCEPT !.pc = "processing", !.input = input,
                                             !.file = file, !.clear_cache = clear_cache,
                                             !.loaded = IF given THEN <<loaded.val>> ELSE <<>>,
                                             !.defaults = (loaded.val = <<>>)]
                     /\ runner' = [runner EXCEPT
                                     !.model_name = (1 :> "all-MiniLM-L6-v2"),
                                     !.pc = "loop", !.blas = blas, !.experiments = experiments,
                                     !.i = 1, !.results = <<>>]
    /\ UNCHANGED <<rng, pc, call, runs, dist, job, files, analysis, stats, procs, disk>>

\* main after the loop: the table, the saved results, the graph and the
\* statistics; min() of no results raises in create_graph
MainSave ==
    /\ load.pc = "processing"
    /\ runner.pc = "returned"
    /\ load' = [load EXCEPT !.pc = IF runner.results = <<>> THEN "raised" ELSE "finished",
                            !.raised = IF runner.results = <<>> THEN "ValueError" ELSE "",
                            !.saved = <<runner.results>>]
    /\ UNCHANGED <<rng, pc, call, runs, dist, job, files, cachedir, runner, analysis, stats,
                   procs, disk>>

\* the exception of process_all_experiments ends main
MainFail ==
    /\ load.pc = "processing"
    /\ runner.pc = "failed"
    /\ load' = [load EXCEPT !.pc = "raised", !.raised = "process_all_experiments"]
    /\ UNCHANGED <<rng, pc, call, runs, dist, job, files, cachedir, runner, analysis, stats,
                   procs, disk>>

NextLoad == MainLoad \/ ProcessExperiment \/ ProcessReturn \/ MainSave \/ MainFail

SpecLoad == InitLoad /\ [][NextLoad]_vars

InputGiven == load.input # <<>> /\ load.input[1] # ""

\* C21: load_experiments returns None, without raising, for a missing
\* file, a file that is not valid JSON and content that is neither a list
\* nor an object with an 'experiments' key; main processes the defaults
\* exactly when no input file is given or the load returned None, and
\* otherwise exactly the loaded experiments.
C21_DefaultsExactlyWhenNothingLoaded ==
    load.pc # "none" =>
        /\ InputGiven /\ load.file.kind \in {"missing", "invalid_utf8", "invalid_json",
                                             "object_without_key", "scalar"}
              => load.loaded = << <<>> >>
        /\ InputGiven /\ load.file.kind \in {"list", "object"}
              => load.loaded = << <<load.file.experiments>> >>
        /\ load.loaded # <<>> \/ ~InputGiven =>
              /\ load.defaults <=> (~InputGiven \/ load.loaded = << <<>> >>)
              /\ load.defaults => runner.experiments = get_default_experiments
              /\ ~load.defaults => runner.experiments = load.file.experiments

\* the embedding of the response entry whose index is n
EntryWithIndex(response, n) ==
    (CHOOSE d \in { response.data[j] : j \in DOMAIN response.data } : d.index = n).embedding

\* C22: get_embeddings_batch returns the embeddings in the order of the
\* input texts whatever the order of the response: element i is the
\* response entry whose index is i; measure_distance compares the
\* embedding of the original text, first, with that of the final text.
C22_BatchKeepsInputOrder ==
    /\ analysis.last # <<>> /\ analysis.last.op = "get_embeddings_batch" /\ ~analysis.last.failed
          => /\ Len(analysis.last.val) = Len(analysis.last.texts)
             /\ \A i \in 1..Len(analysis.last.val) :
                   /\ analysis.last.val[i] = EntryWithIndex(analysis.last.response, i - 1)
                   /\ analysis.last.val[i] = provider_embedding(analysis.last.texts[i])
    /\ analysis.last # <<>> /\ analysis.last.op = "measure_distance" /\ ~analysis.last.failed
          => /\ analysis.last.embeddings[1] = provider_embedding(analysis.last.texts[1])
             /\ analysis.last.embeddings[2] = provider_embedding(analysis.last.texts[2])

\* the response listed the entry of the second text first
C22_Witness ==
    /\ analysis.last # <<>>
    /\ analysis.last.op = "measure_distance"
    /\ ~analysis.last.failed
    /\ analysis.last.texts[1] # analysis.last.texts[2]
    /\ analysis.last.response.data[1].index = 1

(***************************************************************************)
(* Properties of the corrupted tokens.                                     *)
(***************************************************************************)
\* a token without its trailing run of punctuation, and that run
CoreOf(token) == SubSeq(token, 1, Len(token) - TrailingPunctLen(token))

TrailOf(token) == SubSeq(token, Len(token) - TrailingPunctLen(token) + 1, Len(token))

HasLetter(word) == \E i \in 1..Len(word) : isalpha(word[i])

AlphabeticCore(token) ==
    /\ Len(CoreOf(token)) >= 2
    /\ \A i \in 1..Len(CoreOf(token)) : isalpha(CoreOf(token)[i])

Differing == { i \in 1..Len(Tokens(call.sentence)) :
                 Tokens(call.val)[i] # Tokens(call.sentence)[i] }

\* C23: for a rate above 0 and a sentence whose tokens all have an
\* alphabetic core of at least two characters, the returned sentence
\* differs from the input in at least one token.
C23_SomeTokenDiffers ==
    /\ Returned
    /\ call.error_rate > 0
    /\ Tokens(call.sentence) # <<>>
    /\ \A i \in 1..Len(Tokens(call.sentence)) : AlphabeticCore(Tokens(call.sentence)[i])
    => Differing # {}

\* the words one typo can make of a word: a swap of two adjacent
\* characters, a replacement, a deletion or a duplication of one character
OneTypoOf(word) ==
    { [word EXCEPT ![i] = word[i + 1], ![i + 1] = word[i]] : i \in 1..(Len(word) - 1) }
        \cup { [word EXCEPT ![i] = RandomLetters[l]] :
                 i \in 1..Len(word), l \in 1..Len(RandomLetters) }
        \cup { SubSeq(word, 1, i - 1) \o SubSeq(word, i + 1, Len(word)) : i \in 1..Len(word) }
        \cup { SubSeq(word, 1, i) \o <<word[i]>> \o SubSeq(word, i + 1, Len(word)) :
                 i \in 1..Len(word) }

\* C24: the output token of a selected token is the token's core with one
\* typo applied, every other character of the core as in the input,
\* followed by the trailing punctuation unchanged.
C24_OneTypoInTheCore ==
    Returned /\ call.error_rate > 0 =>
        \A i \in Selected :
            LET token == Tokens(call.sentence)[i]
            IN HasLetter(CoreOf(token)) /\ Len(CoreOf(token)) >= 2
                  => \E typo \in OneTypoOf(CoreOf(token)) :
                        Tokens(call.val)[i] = typo \o TrailOf(token)

\* C30: a token that was not selected is the input token, a selected token
\* without a letter is the input token, and no more tokens differ from the
\* input than were selected.
C30_OnlySelectedTokensChange ==
    Returned =>
        /\ Len(Tokens(call.val)) = Len(Tokens(call.sentence))
        /\ \A i \in 1..Len(Tokens(call.sentence)) :
              i \notin Selected \/ ~HasLetter(CoreOf(Tokens(call.sentence)[i]))
                 => Tokens(call.val)[i] = Tokens(call.sentence)[i]
        /\ Cardinality(Differing) <= Cardinality(Selected)

\* of two tokens one was selected and changed; the other one was not
C30_Witness ==
    /\ Returned
    /\ Len(Tokens(call.sentence)) = 2
    /\ Cardinality(Selected) = 1
    /\ Differing = Selected
    /\ \E i \in 1..2 : i \notin Selected /\ HasLetter(Tokens(call.sentence)[i])

(***************************************************************************)
(* Properties of a run of error_injector.main.                             *)
(***************************************************************************)
\* C27: when main has finished, the output directory holds the saved
\* result of every (sentence, error rate) pair it processed.
C27_EveryPairStaysSaved ==
    job.pc = "completed" =>
        \A k \in 1..Len(job.done) :
            LET pair == job.done[k]
                txt == [error_rate |-> pair.error_rate, ext |-> "txt"]
                json == [error_rate |-> pair.error_rate, ext |-> "json"]
            IN /\ job.format \in {"txt", "both"}
                    => /\ txt \in DOMAIN files
                       /\ files[txt].original = pair.sentence
                       /\ files[txt].with_errors = pair.val
               /\ job.format \in {"json", "both"}
                    => /\ json \in DOMAIN files
                       /\ files[json].original_sentence = pair.sentence
                       /\ files[json].sentence_with_errors = pair.val

\* C28: the corrupted sentence of a (sentence, error rate) pair is the one
\* inject_errors makes of the pair from the run's seed, whatever was
\* processed before it in the run.
C28_ResultDependsOnPairAndSeedOnly ==
    \A k \in 1..Len(job.done) :
        job.done[k].val =
            inject_errors(job.done[k].sentence, job.done[k].error_rate, job.seed).val

(***************************************************************************)
(* SpecInterleaved: two injection runs in one process, each seeding the    *)
(* generator of the random module and then calling inject_errors, their    *)
(* steps interleaved.  A step is one call into the random module: the      *)
(* other run's random.seed and draws fall between the draws of one call of *)
(* inject_errors.                                                          *)
(***************************************************************************)
Runs == {1, 2}

\* the seed of run p, its stream as long as the calls of both runs can draw
InterleavedSeed(p) == SeedStream(p, 3, Cardinality(Runs) * CallDraws(ReproSentences))

\* the two runs are given their seeds, and the sentence and rate they share
StartRuns ==
    /\ procs = NoProcs
    /\ \E sentence \in ReproSentences, error_rate \in ReproRates :
          procs' = [p \in Runs |-> [pc |-> "start", seed |-> InterleavedSeed(p), sentence |-> sentence,
                                    error_rate |-> error_rate, drawn |-> <<>>, val |-> <<>>]]
    /\ UNCHANGED <<rng, pc, call, runs, dist, job, files, cachedir, runner, analysis, stats,
                   load, disk>>

\* random.seed(seed) of run p
RunSeed(p) ==
    /\ procs # NoProcs
    /\ procs[p].pc = "start"
    /\ rng' = procs[p].seed
    /\ procs' = [procs EXCEPT ![p].pc = "seeded"]
    /\ UNCHANGED <<pc, call, runs, dist, job, files, cachedir, runner, analysis, stats,
                   load, disk>>

\* inject_errors(sentence, error_rate) of run p, as far as the draws it has
\* taken from the generator carry it
Injecting(p) == inject_errors(procs[p].sentence, procs[p].error_rate, procs[p].drawn)

\* the next draw of run p's inject_errors (random.sample, random.choice or
\* random.randint) takes the head of the shared generator
RunDraw(p) ==
    /\ procs # NoProcs
    /\ procs[p].pc = "seeded"
    /\ Short(Injecting(p).rng)
    /\ \E d \in IF rng = <<>> THEN 0..((0 - Head(Injecting(p).rng)) - 1) ELSE {Head(rng)} :
          procs' = [procs EXCEPT ![p].drawn = Append(@, d)]
    /\ rng' = IF rng = <<>> THEN rng ELSE Tail(rng)
    /\ UNCHANGED <<pc, call, runs, dist, job, files, cachedir, runner, analysis, stats,
                   load, disk>>

\* run p's inject_errors has made its last draw and returns
RunInject(p) ==
    /\ procs # NoProcs
    /\ procs[p].pc = "seeded"
    /\ ~Short(Injecting(p).rng)
    /\ procs' = [procs EXCEPT ![p].pc = "done", ![p].val = Injecting(p).val]
    /\ UNCHANGED <<rng, pc, call, runs, dist, job, files, cachedir, runner, analysis, stats,
                   load, disk>>

SeedStep == \E p \in Runs : RunSeed(p)

DrawStep == \E p \in Runs : RunDraw(p)

InjectStep == \E p \in Runs : RunInject(p)

NextInterleaved == StartRuns \/ SeedStep \/ DrawStep \/ InjectStep

SpecInterleaved == InitCache /\ [][NextInterleaved]_vars

\* C25: each of two interleaved runs, seeded by its caller, returns what
\* it returns when it runs alone with its seed.
C25_InterleavedRunsAsAlone ==
    procs # NoProcs =>
        \A p \in Runs :
            procs[p].pc = "done"
                => procs[p].val =
                      inject_errors(procs[p].sentence, procs[p].error_rate, procs[p].seed).val

(***************************************************************************)
(* SpecConcurrent: several processes, with the same model, calling         *)
(* get_or_calculate_embedding on one cache directory.  np.save opens the   *)
(* cache file, which empties it, and then writes it.                       *)
(***************************************************************************)
Processes == 1..MaxInstances

SharedModel == "all-MiniLM-L6-v2"

\* the processes start, each with the text it asks for
StartProcesses ==
    /\ procs = NoProcs
    /\ \E texts \in [Processes -> Texts] :
          procs' = [p \in Processes |-> [pc |-> "exists", text |-> texts[p], embedding |-> <<>>,
                                         val |-> <<>>, raised |-> FALSE]]
    /\ UNCHANGED <<rng, pc, call, runs, dist, job, files, cachedir, runner, analysis, stats,
                   load, disk>>

\* if cache_path.exists()
CacheExists(p) ==
    /\ procs # NoProcs
    /\ procs[p].pc = "exists"
    /\ procs' = [procs EXCEPT ![p].pc =
                    IF get_embedding_cache_path(procs[p].text) \in DOMAIN disk
                    THEN "load" ELSE "encode"]
    /\ UNCHANGED <<rng, pc, call, runs, dist, job, files, cachedir, runner, analysis, stats,
                   load, disk>>

\* np.load(cache_path): a file that is not completely written cannot be read
CacheLoad(p) ==
    /\ procs # NoProcs
    /\ procs[p].pc = "load"
    /\ LET file == disk[get_embedding_cache_path(procs[p].text)]
       IN procs' = [procs EXCEPT ![p].pc = "done",
                                 ![p].raised = ~file.complete,
                                 ![p].val = IF file.complete THEN file.val ELSE <<>>]
    /\ UNCHANGED <<rng, pc, call, runs, dist, job, files, cachedir, runner, analysis, stats,
                   load, disk>>

\* self.model.encode(text)
CacheEncode(p) ==
    /\ procs # NoProcs
    /\ procs[p].pc = "encode"
    /\ procs' = [procs EXCEPT ![p].pc = "open",
                              ![p].embedding = encode(SharedModel, procs[p].text)]
    /\ UNCHANGED <<rng, pc, call, runs, dist, job, files, cachedir, runner, analysis, stats,
                   load, disk>>

\* np.save(cache_path, embedding), first half: the file is opened for
\* writing, created or emptied
CacheOpen(p) ==
    /\ procs # NoProcs
    /\ procs[p].pc = "open"
    /\ LET path == get_embedding_cache_path(procs[p].text)
       IN disk' = [f \in DOMAIN disk \cup {path} |->
                     IF f = path THEN [complete |-> FALSE, val |-> <<>>] ELSE disk[f]]
    /\ procs' = [procs EXCEPT ![p].pc = "write"]
    /\ UNCHANGED <<rng, pc, call, runs, dist, job, files, cachedir, runner, analysis, stats,
                   load>>

\* np.save, second half: the array is written and the file closed; the
\* embedding is returned
CacheWrite(p) ==
    /\ procs # NoProcs
    /\ procs[p].pc = "write"
    /\ LET path == get_embedding_cache_path(procs[p].text)
       IN disk' = [f \in DOMAIN disk \cup {path} |->
                     IF f = path THEN [complete |-> TRUE, val |-> procs[p].embedding]
                     ELSE disk[f]]
    /\ procs' = [procs EXCEPT ![p].pc = "done", ![p].val = procs[p].embedding]
    /\ UNCHANGED <<rng, pc, call, runs, dist, job, files, cachedir, runner, analysis, stats,
                   load>>

ExistsStep == \E p \in Processes : CacheExists(p)
LoadStep == \E p \in Processes : CacheLoad(p)
EncodeStep == \E p \in Processes : CacheEncode(p)
OpenStep == \E p \in Processes : CacheOpen(p)
WriteStep == \E p \in Processes : CacheWrite(p)

NextConcurrent ==
    StartProcesses \/ ExistsStep \/ LoadStep \/ EncodeStep \/ OpenStep \/ WriteStep

SpecConcurrent == InitCache /\ [][NextConcurrent]_vars

\* C26: every concurrent call returns the complete embedding of its text;
\* none finds the cache file partially written or fails.
C26_ConcurrentCallsReturnEmbedding ==
    procs # NoProcs =>
        \A p \in Processes :
            /\ procs[p].pc = "load"
                  => disk[get_embedding_cache_path(procs[p].text)].complete
            /\ procs[p].pc = "done"
                  => ~procs[p].raised /\ procs[p].val = encode(SharedModel, procs[p].text)

\* C29: in a comprehensive report, a regression fit labelled 'excellent
\* fit' goes with strong_linear_fit = true in the linearity test.
C29_ExcellentFitIsStrongFit ==
    stats.op = "generate_comprehensive_report" /\ ~stats.raised
        => (stats.out.linear_regression.interpretation.fit_quality = "excellent fit"
               => stats.out.linearity_hypothesis_test.strong_linear_fit)

====
